---------------------------- MODULE Spec2Model ----------------------------
(***************************************************************************)
(* A model of the irc.ts client engine: the cycling ping timer             *)
(* (cycling_ping_timer.ts), the connection lifecycle with its reconnect    *)
(* policy, the inbound line framing, the flood-protection queue, the       *)
(* long-line splitter, the TLS trust test and the message dispatcher       *)
(* (irc.ts).                                                               *)
(*                                                                         *)
(* The module holds several specifications over one set of variables:      *)
(*   SpecTimer  one CyclingPingTimer driven by arbitrary calls and firings *)
(*   Spec       the client's connections, timers, queue and socket writes  *)
(*   SpecFlood  the same with flood protection active                      *)
(*   SpecFrame  handleData over every chunking of a byte stream            *)
(*   SpecSplit  _splitLongLines over every text and limit                  *)
(*   SpecTls    the secure socket's connect callback, every option/outcome *)
(*   SpecNick   the raw listener: registration, nick changes, error replies *)
(*   SpecChan   the raw listener: the channel map and the kick listener     *)
(*   SpecCtcp   the raw listener: one PRIVMSG, plain or CTCP-framed         *)
(*   SpecWhois  the raw listener: WHOIS replies and the whois callback     *)
(*   SpecRename the raw listener: NICK over channels with and without a user*)
(*   SpecMode   the raw listener: one MODE of any letters and arguments    *)
(*   SpecParse  parseMessage over composed lines                           *)
(*   SpecChunk  handleData's loop over the lines of one chunk              *)
(*   SpecFair   Spec, where every emitted close event is delivered         *)
(*   SpecSend   SpecFlood with flood protection on or off                  *)
(*   SpecRetry  Spec, where the server also welcomes the connections       *)
(* A specification leaves the variables of the other components at their   *)
(* initial values.                                                         *)
(***************************************************************************)
EXTENDS Integers, Sequences, FiniteSets, TLC

VARIABLES
    \* ---- CyclingPingTimer (SpecTimer)
    timer,      \* the timer object: started, loopingTimeout, pingWaitTimeout
    hist,       \* the calls made on the timer and the signals it emitted, in order
    \* ---- Client (Spec)
    opt,        \* the option snapshot: retryCount, floodProtection, ...
    conn,       \* this.conn: the current connection's id, or NoConn (null)
    conns,      \* the connection objects created so far, by id
    retryTimers,\* pending reconnect timers: the retryCount each will connect with
    cmdQueue,   \* the flood-protection queue (cmdQueue of activateFloodProtection)
    written,    \* the conn.write calls of the last handler run, in order
    events,     \* the client events emitted so far (abort, connect), in order
    trace,      \* counters: the PINGs the server sent
    sends,      \* number of caller send() calls made (bounded)
    pings,      \* value of the global pingCounter minus one (bounded)
    \* ---- handleData (SpecFrame)
    stream,     \* the bytes of the connection not yet delivered
    received,   \* the bytes delivered so far
    buffer,     \* handleData's buffer
    raw,        \* the lines raised as `raw` events so far, in order
    last,       \* history: what the last handleData call did
    \* ---- _splitLongLines (SpecSplit)
    split,      \* one call: words, maxLength, whether it has run, destination
    \* ---- the TLS socket (SpecTls)
    tls,        \* what the TLS layer reported when the secure socket connected
    \* ---- the dispatcher (SpecNick, SpecChan, SpecCtcp)
    self,       \* this.nick, this.hostMask, this.maxLineLength, pending whois wrappers
    chans,      \* this.chans: the channel map, by key
    disp        \* history: the last message dispatched, its sends and events

timerVars == <<timer, hist>>
clientVars == <<opt, conn, conns, retryTimers, cmdQueue, written, events, trace, sends, pings>>
frameVars == <<stream, received, buffer, raw, last>>
splitVars == <<split>>
tlsVars == <<tls>>
dispatchVars == <<self, chans, disp>>
engineVars == <<splitVars, tlsVars, dispatchVars>>
vars == <<timerVars, clientVars, frameVars, engineVars>>

---------------------------------------------------------------------------
(* Bounds of the model. *)

\* The number of calls and signals recorded of one timer in SpecTimer.
MaxHist == 7

\* The length of the inbound byte streams of SpecFrame.
MaxStream == 5

\* Spec: the connections one client makes (the first and its reconnects).
MaxConn == 3

\* Spec: the largest configured retryCount.
MaxRetry == 2

\* Spec: the caller's send() calls.
MaxSends == 2

\* Spec: the PINGs the watchdog asks for (the global pingCounter).
MaxPings == 1

\* Spec: the PING messages the server sends.
MaxServerPings == 1

\* SpecSplit: the length of the text given to the long-line splitter.
MaxText == 5

\* SpecSplit: the largest limit given to the long-line splitter.
MaxLimit == 3

---------------------------------------------------------------------------
(* CyclingPingTimer: src/mod.ts lines 43-102.  A timer field is TRUE when   *)
(* it refers to an armed (scheduled, not yet fired, not cleared) timeout.   *)

NewTimer == [started |-> FALSE, loopingTimeout |-> FALSE, pingWaitTimeout |-> FALSE]

\* stop() that forgets to cancel the ping-wait timeout.
PTStopKeepsPingWait(t) ==
    IF ~t.started THEN t
    ELSE [t EXCEPT !.started = FALSE, !.loopingTimeout = FALSE]

\* stop(): returns when not started; otherwise clears both timeouts.
PTStop(t) ==
    IF ~t.started THEN t
    ELSE [started |-> FALSE, loopingTimeout |-> FALSE, pingWaitTimeout |-> FALSE]

\* start() without the `started` guard.
PTStartUnguarded(t) == [t EXCEPT !.started = TRUE, !.loopingTimeout = TRUE]

\* start(): returns when started; otherwise arms the looping (idle) timeout.
PTStart(t) ==
    IF t.started THEN t
    ELSE [t EXCEPT !.started = TRUE, !.loopingTimeout = TRUE]

\* notifyOfActivity() that starts the timer without stopping it first.
PTNotifyOfActivityNoStop(t) == PTStart(t)

\* notifyOfActivity(): stop() then start(), only when started.
PTNotifyOfActivity(t) == IF t.started THEN PTStart(PTStop(t)) ELSE t

\* The looping timeout fires: its callback clears the field and emits
\* wantPing, whose first listener (the constructor's) arms the ping-wait timeout.
PTLoopingFires(t) == [t EXCEPT !.loopingTimeout = FALSE, !.pingWaitTimeout = TRUE]

\* The ping-wait callback emits pingTimeout without calling stop().
PTPingWaitFiresNoStop(t) == [t EXCEPT !.pingWaitTimeout = FALSE]

\* The ping-wait timeout fires (so it is armed no more): its callback calls
\* stop() and then emits pingTimeout.
PTPingWaitFires(t) == PTStop([t EXCEPT !.pingWaitTimeout = FALSE])

---------------------------------------------------------------------------
(* SpecTimer: one timer, any order of calls and firings. *)

Signals == {"wantPing", "pingTimeout"}
Calls == {"start", "stop", "notifyOfActivity"}

InitTimerIdle == timer = NewTimer /\ hist = <<>>

\* The option defaults of lines 41-73.  retryCount is the empty set for
\* null and {n} for the number n.
\* The nick given to the constructor.
Nick == <<"b", "o", "t">>

DefaultOpt ==
    [retryCount |-> {}, floodProtection |-> FALSE, sasl |-> FALSE,
     password |-> FALSE, webirc |-> {},
     secure |-> "false", selfSigned |-> FALSE, certExpired |-> FALSE,
     nick |-> Nick, nickMod |-> {}, autoRejoin |-> FALSE, showErrors |-> FALSE]

NoTrace == [serverPings |-> 0]

InitClientIdle ==
    /\ opt = DefaultOpt
    /\ conn = 0
    /\ conns = <<>>
    /\ retryTimers = <<>>
    /\ cmdQueue = <<>>
    /\ written = <<>>
    /\ events = <<>>
    /\ trace = NoTrace
    /\ sends = 0
    /\ pings = 0

InitFrameIdle ==
    /\ stream = <<>>
    /\ received = <<>>
    /\ buffer = <<>>
    /\ raw = <<>>
    /\ last = [called |-> FALSE, input |-> <<>>, emitted |-> <<>>,
               threw |-> FALSE, anyThrow |-> FALSE]

InitSplitIdle ==
    split = [words |-> <<>>, maxLength |-> 0, called |-> FALSE, destination |-> <<>>]

\* No TLS socket has connected.  authorizationError is the empty set for
\* null and {e} for the error code e.
InitTlsIdle ==
    tls = [secureConnect |-> FALSE, authorized |-> FALSE, authorizationError |-> {}]

NoMessage == [command |-> "none", commandType |-> "normal", nick |-> {}, args |-> <<>>]

\* A nick that is also the name of a member of Object.prototype.
ValueOf == <<"v", "a", "l", "u", "e", "O", "f">>

\* _whoisData = {} (line 820): no own property; a property read still finds
\* the members the object inherits from Object.prototype, here valueOf, a
\* function object that has no whois field yet.  A record is a function
\* from field names to values.
NoWhoisData == [objects |-> <<>>, inherited |-> (ValueOf :> <<>>)]

\* The fields as the class initialises them (lines 97, 105, 109, 819, 820);
\* nothing has been dispatched.
InitDispatchIdle ==
    /\ self = [nick |-> {Nick}, hostMask |-> <<>>, maxLineLength |-> 200, whois |-> <<>>,
               whoisData |-> NoWhoisData]
    /\ chans = <<>>
    /\ disp = [msg |-> NoMessage, sends |-> <<>>, emits |-> <<>>, threw |-> FALSE,
               nicknameinuse |-> 0]

InitEngineIdle == InitSplitIdle /\ InitTlsIdle /\ InitDispatchIdle

TStart ==
    /\ Len(hist) < MaxHist
    /\ timer' = PTStart(timer)
    /\ hist' = Append(hist, "start")
    /\ UNCHANGED <<clientVars, frameVars, engineVars>>

TStop ==
    /\ Len(hist) < MaxHist
    /\ timer' = PTStop(timer)
    /\ hist' = Append(hist, "stop")
    /\ UNCHANGED <<clientVars, frameVars, engineVars>>

TNotifyOfActivity ==
    /\ Len(hist) < MaxHist
    /\ timer' = PTNotifyOfActivity(timer)
    /\ hist' = Append(hist, "notifyOfActivity")
    /\ UNCHANGED <<clientVars, frameVars, engineVars>>

TLoopingTimeout ==
    /\ Len(hist) < MaxHist
    /\ timer.loopingTimeout
    /\ timer' = PTLoopingFires(timer)
    /\ hist' = Append(hist, "wantPing")
    /\ UNCHANGED <<clientVars, frameVars, engineVars>>

TPingWaitTimeout ==
    /\ Len(hist) < MaxHist
    /\ timer.pingWaitTimeout
    /\ timer' = PTPingWaitFires(timer)
    /\ hist' = Append(hist, "pingTimeout")
    /\ UNCHANGED <<clientVars, frameVars, engineVars>>

InitTimer == InitTimerIdle /\ InitClientIdle /\ InitFrameIdle /\ InitEngineIdle

NextTimer ==
    \/ TStart
    \/ TStop
    \/ TNotifyOfActivity
    \/ TLoopingTimeout
    \/ TPingWaitTimeout

SpecTimer == InitTimer /\ [][NextTimer]_vars

---------------------------------------------------------------------------
(* Claims about the CyclingPingTimer, checked under SpecTimer. *)

\* The positions after i up to (not including) the first stop() or
\* notifyOfActivity() that follows i.
QuietRun(i) ==
    {j \in (i+1)..Len(hist) :
        \A k \in (i+1)..j : hist[k] \notin {"stop", "notifyOfActivity"}}

TimerStopped == ~timer.started /\ ~timer.loopingTimeout /\ ~timer.pingWaitTimeout
TimerRunningIdle == timer.started /\ timer.loopingTimeout /\ ~timer.pingWaitTimeout
TimerWaitForPong == timer.started /\ ~timer.loopingTimeout /\ timer.pingWaitTimeout

\* C4: after a wantPing that no notifyOfActivity() or stop() follows, the
\* ping-wait timeout is armed; the next signal is one pingTimeout, after which
\* the timer is stopped with nothing armed, and no further signal is emitted
\* before start() is called again.
C4_WantPingThenOneTimeout ==
    \A i \in 1..Len(hist) :
        hist[i] = "wantPing" =>
            LET Q == QuietRun(i)
                TO == {j \in Q : hist[j] = "pingTimeout"}
            IN  /\ \A j \in Q : hist[j] = "wantPing" =>
                       \E p \in Q, s \in Q :
                           /\ p < s /\ s < j
                           /\ hist[p] = "pingTimeout" /\ hist[s] = "start"
                /\ \A p \in TO, j \in TO : p < j =>
                       \E w \in Q : p < w /\ w < j /\ hist[w] = "wantPing"
                /\ Q = (i+1)..Len(hist) =>
                       IF TO = {} THEN TimerWaitForPong
                       ELSE (\A s \in Q : (\E p \in TO : p < s) => hist[s] # "start")
                                => TimerStopped

\* C4 witness: start, the idle timeout fired, then the ping-wait timeout fired.
C4_Witness ==
    /\ Len(hist) >= 3
    /\ hist[Len(hist)] = "pingTimeout"
    /\ hist[Len(hist) - 1] = "wantPing"
    /\ TimerStopped

\* C5: every pingTimeout follows a wantPing with no stop() between the two,
\* and once stop() has followed the last wantPing no ping-wait timeout is armed.
C5_StopPreventsTimeout ==
    /\ \A j \in 1..Len(hist) :
           hist[j] = "pingTimeout" =>
               \E i \in 1..(j-1) :
                   /\ hist[i] = "wantPing"
                   /\ \A k \in (i+1)..(j-1) : hist[k] # "stop"
    /\ \A i \in 1..Len(hist) :
           ( /\ hist[i] = "wantPing"
             /\ \A k \in (i+1)..Len(hist) : hist[k] # "wantPing"
             /\ \E k \in (i+1)..Len(hist) : hist[k] = "stop" )
               => ~timer.pingWaitTimeout

\* C5 witness: stop() was called right after a wantPing.
C5_Witness ==
    /\ Len(hist) >= 3
    /\ hist[Len(hist)] = "stop"
    /\ hist[Len(hist) - 1] = "wantPing"
    /\ TimerStopped

\* C6: the idle (looping) timeout and the ping-wait timeout are never both armed.
C6_AtMostOneArmed == ~(timer.loopingTimeout /\ timer.pingWaitTimeout)

\* C6 witness: the ping-wait timeout is armed after the timer was stopped,
\* restarted and notified of activity.
C6_Witness ==
    /\ TimerWaitForPong
    /\ \E i, j, k \in 1..Len(hist) :
           /\ i < j /\ j < k
           /\ hist[i] = "stop" /\ hist[j] = "start" /\ hist[k] = "notifyOfActivity"

\* C25: notifyOfActivity() on a stopped timer changes nothing (nothing is
\* armed before or after); on a running timer, in either phase, it leaves
\* the timer running with the idle timeout armed and the ping-wait timeout
\* not armed.  Every wantPing follows a start() or notifyOfActivity() with
\* no wantPing, stop() or pingTimeout between the two.
C25_ActivityRestartsIdle ==
    /\ [][hist' = Append(hist, "notifyOfActivity") =>
              IF timer.started
              THEN /\ timer'.started
                   /\ timer'.loopingTimeout
                   /\ ~timer'.pingWaitTimeout
              ELSE /\ timer' = timer
                   /\ ~timer'.loopingTimeout
                   /\ ~timer'.pingWaitTimeout]_vars
    /\ [](\A j \in 1..Len(hist) :
             hist[j] = "wantPing" =>
                 \E i \in 1..(j - 1) :
                     /\ hist[i] \in {"start", "notifyOfActivity"}
                     /\ \A k \in (i + 1)..(j - 1) :
                            hist[k] \notin {"wantPing", "stop", "pingTimeout"})

\* C25 witness: notifyOfActivity() was called while the timer waited for the
\* pong, and the timer is back in the idle phase.
C25_Witness ==
    /\ Len(hist) >= 3
    /\ hist[Len(hist)] = "notifyOfActivity"
    /\ hist[Len(hist) - 1] = "wantPing"
    /\ TimerRunningIdle

\* C26: in every reachable state stop() leaves the timer stopped with
\* neither timeout armed, a second stop() changes nothing, and an armed
\* timeout implies that the timer is started.
C26_StopIsIdempotent ==
    /\ PTStop(timer) = NewTimer
    /\ PTStop(PTStop(timer)) = PTStop(timer)
    /\ (timer.loopingTimeout \/ timer.pingWaitTimeout) => timer.started

\* C26 witness: stop() was called twice in a row on a timer that had run.
C26_Witness ==
    /\ Len(hist) >= 3
    /\ hist[Len(hist)] = "stop"
    /\ hist[Len(hist) - 1] = "stop"
    /\ hist[Len(hist) - 2] \in {"start", "wantPing", "notifyOfActivity"}
    /\ TimerStopped

---------------------------------------------------------------------------
(* Line framing: handleData of Client.connect, src/unnamed/part_000 lines  *)
(* 979-1013.  A byte is one of Chars; CR and LF are the line delimiters.   *)

Chars == {"a", "b", "SP", "CR", "LF"}
Delims == {"CR", "LF"}

\* String.split(lineDelimiter) with lineDelimiter = /\r\n|\r|\n/ (line 34):
\* the fragments between delimiters, the last one being what follows the
\* last delimiter (empty when the string ends with one).
RECURSIVE SplitFrom(_, _, _)
SplitFrom(s, i, cur) ==
    IF i > Len(s) THEN <<cur>>
    ELSE IF s[i] = "CR" /\ i < Len(s) /\ s[i+1] = "LF"
         THEN <<cur>> \o SplitFrom(s, i + 2, <<>>)
    ELSE IF s[i] \in Delims
         THEN <<cur>> \o SplitFrom(s, i + 1, <<>>)
    ELSE SplitFrom(s, i + 1, Append(cur, s[i]))

SplitLines(s) == SplitFrom(s, 1, <<>>)

\* parseMessage, lines 22-25 of src/src/parse_message.ts: a leading
\* ":prefix" followed by spaces is removed (/^:([^ ]+) +/).
RECURSIVE SkipWhile(_, _, _)
SkipWhile(s, i, isSpace) ==
    IF i <= Len(s) /\ ((s[i] = "SP") = isSpace) THEN SkipWhile(s, i + 1, isSpace) ELSE i

StripPrefix(line) ==
    IF line # <<>> /\ line[1] = ":"
    THEN LET e == SkipWhile(line, 2, FALSE)     \* end of [^ ]+
             f == SkipWhile(line, e, TRUE)      \* end of the spaces
         IN  IF e > 2 /\ f > e THEN SubSeq(line, f, Len(line)) ELSE line
    ELSE line

\* parseMessage throws a TypeError when the command pattern /^([^ ]+) */
\* does not match what is left (line 39: the match result is destructured).
ParseThrows(line) ==
    LET l == StripPrefix(line) IN l = <<>> \/ l[1] = "SP"

\* lines.forEach of handleData: each non-empty line is parsed and raised as
\* `raw`; parseMessage is called outside the try block, so its exception ends
\* the loop.  The raw listeners raise no exception on the lines of Chars
\* (their commands are unknown to the dispatcher, which ignores them).
RECURSIVE EmitLines(_, _, _)
EmitLines(lines, i, acc) ==
    IF i > Len(lines) THEN [emitted |-> acc, threw |-> FALSE]
    ELSE IF Len(lines[i]) = 0 THEN EmitLines(lines, i + 1, acc)
    ELSE IF ParseThrows(lines[i]) THEN [emitted |-> acc, threw |-> TRUE]
    ELSE EmitLines(lines, i + 1, Append(acc, lines[i]))

Front(q) == SubSeq(q, 1, Len(q) - 1)

\* handleData that does not reset the buffer after dispatching its lines.
HandleDataNoReset(buf, chunk) ==
    LET b == buf \o chunk
        lines == SplitLines(b)
    IN  IF lines[Len(lines)] # <<>>
        THEN [buffer |-> b, emitted |-> <<>>, threw |-> FALSE]
        ELSE LET r == EmitLines(Front(lines), 1, <<>>)
             IN  [buffer |-> b, emitted |-> r.emitted, threw |-> r.threw]

\* handleData that dispatches the complete leading lines although the last
\* fragment is incomplete, and keeps the whole buffer.
HandleDataEmitsLeading(buf, chunk) ==
    LET b == buf \o chunk
        lines == SplitLines(b)
        r == EmitLines(Front(lines), 1, <<>>)
    IN  IF lines[Len(lines)] # <<>>
        THEN [buffer |-> b, emitted |-> r.emitted, threw |-> r.threw]
        ELSE [buffer |-> <<>>, emitted |-> r.emitted, threw |-> r.threw]

\* handleData(chunk) on buffer buf: the new buffer, the lines raised as raw
\* events, and whether an exception left the handler.
HandleData(buf, chunk) ==
    LET b == buf \o chunk
        lines == SplitLines(b)
    IN  IF lines[Len(lines)] # <<>>
        THEN [buffer |-> b, emitted |-> <<>>, threw |-> FALSE]
        ELSE LET r == EmitLines(Front(lines), 1, <<>>)
             IN  [buffer |-> <<>>, emitted |-> r.emitted, threw |-> r.threw]

Streams == UNION {[1..n -> Chars] : n \in 0..MaxStream}

\* The connection is open and its handler has started the ping timer.
InitFrame ==
    /\ InitClientIdle
    /\ InitEngineIdle
    /\ timer = PTStart(NewTimer)
    /\ hist = <<>>
    /\ stream \in Streams
    /\ received = <<>>
    /\ buffer = <<>>
    /\ raw = <<>>
    /\ last = [called |-> FALSE, input |-> <<>>, emitted |-> <<>>,
               threw |-> FALSE, anyThrow |-> FALSE]

\* The socket delivers the next k bytes of the stream as one data chunk.
DataChunk ==
    \E k \in 1..Len(stream) :
        LET chunk == SubSeq(stream, 1, k)
            r == HandleData(buffer, chunk)
        IN  /\ timer' = PTNotifyOfActivity(timer)
            /\ stream' = SubSeq(stream, k + 1, Len(stream))
            /\ received' = received \o chunk
            /\ buffer' = r.buffer
            /\ raw' = raw \o r.emitted
            /\ last' = [called |-> TRUE, input |-> buffer \o chunk,
                        emitted |-> r.emitted, threw |-> r.threw,
                        anyThrow |-> last.anyThrow \/ r.threw]
            /\ UNCHANGED <<hist, clientVars, engineVars>>

NextFrame == DataChunk

SpecFrame == InitFrame /\ [][NextFrame]_vars

---------------------------------------------------------------------------
(* Claims about line framing, checked under SpecFrame. *)

\* The complete non-empty lines of a byte string: the maximal runs of
\* non-delimiter bytes that a delimiter ends, in order.
RECURSIVE LinesFrom(_, _, _)
LinesFrom(s, i, cur) ==
    IF i > Len(s) THEN <<>>
    ELSE IF s[i] \in Delims
         THEN (IF cur = <<>> THEN <<>> ELSE <<cur>>) \o LinesFrom(s, i + 1, <<>>)
    ELSE LinesFrom(s, i + 1, Append(cur, s[i]))

CompleteLines(s) == LinesFrom(s, 1, <<>>)

EndsInFragment(s) == s # <<>> /\ s[Len(s)] \notin Delims

---------------------------------------------------------------------------
(* The dispatcher: the `raw` listener of the constructor                   *)
(* (src/unnamed/part_000 lines 126-798), the listeners it triggers, and    *)
(* chanData.                                                               *)
(*                                                                         *)
(* A string is a sequence of characters; a value that may be undefined is  *)
(* the empty set (undefined) or {s}.  A message is a record: command,      *)
(* commandType, nick (the prefix's nick, or undefined) and args.           *)
(* A handler runs on a record r of the client's fields (opt, nick,         *)
(* hostMask, maxLineLength, whois: the nicks the pending whois() callback  *)
(* wrappers wait for, chans) that also collects the this.send calls and    *)
(* the events emitted, and notes an exception; an exception ends the       *)
(* handler where it is raised.                                             *)

Undefined == {}

Val(x) == CHOOSE s \in x : TRUE

\* String.prototype.toLowerCase / toUpperCase, on the letters of the model.
LowerChar(c) ==
    CASE c = "F" -> "f" [] c = "G" -> "g" [] c = "O" -> "o" [] OTHER -> c

ToLowerCase(s) == [i \in 1..Len(s) |-> LowerChar(s[i])]

UpperChar(c) ==
    CASE c = "f" -> "F" [] c = "g" -> "G" [] c = "b" -> "B" [] c = "o" -> "O"
      [] c = "t" -> "T" [] c = "x" -> "X" [] c = "n" -> "N" [] OTHER -> c

ToUpperCase(s) == [i \in 1..Len(s) |-> UpperChar(s[i])]

\* A number appended to a string (line 249) is written in decimal.
RECURSIVE NumberToString(_)
NumberToString(k) ==
    LET digit == <<"0", "1", "2", "3", "4", "5", "6", "7", "8", "9">>
    IN  IF k < 10 THEN <<digit[k + 1]>>
        ELSE NumberToString(k \div 10) \o <<digit[(k % 10) + 1]>>

\* args[j] of the message, undefined past the end.
Arg(msg, j) == IF j + 1 <= Len(msg.args) THEN {msg.args[j + 1]} ELSE Undefined

\* The last element of s.split(/\s+/) (lines 146-147).
LastWord(s) ==
    LET ws == {i \in 1..Len(s) : s[i] = "SP"}
    IN  IF ws = {} THEN s
        ELSE SubSeq(s, (CHOOSE i \in ws : \A j \in ws : j <= i) + 1, Len(s))

\* undefined + "@" + undefined (line 152).
UndefinedAtUndefined ==
    <<"u", "n", "d", "e", "f", "i", "n", "e", "d", "@",
      "u", "n", "d", "e", "f", "i", "n", "e", "d">>

Throw(r) == [r EXCEPT !.threw = TRUE]

Emit(r, name, suffix, text) ==
    IF r.threw THEN r
    ELSE [r EXCEPT !.emits = Append(@, [name |-> name, suffix |-> suffix, text |-> text])]

\* A call of this.send.
CallSend(r, cmd, arg) ==
    IF r.threw THEN r
    ELSE [r EXCEPT !.sends = Append(@, [cmd |-> cmd, arg |-> arg])]

\* _updateMaxLineLength (lines 1329-1333); reading .length of an undefined
\* nick throws.
UpdateMaxLineLength(r) ==
    IF r.threw THEN r
    ELSE IF r.nick = Undefined THEN Throw(r)
    ELSE [r EXCEPT !.maxLineLength = 497 - Len(Val(r.nick)) - Len(r.hostMask)]

\* chanData that keys the map by the name as given.
ChanKeyAsGiven(name) == name

\* The key of chanData (line 841).
ChanKey(name) == ToLowerCase(name)

\* delete object[key], on an object held as a function of its own keys.
Without(object, key) == [k \in DOMAIN object \ {key} |-> object[k]]

NewChannel(name) ==
    [key |-> ChanKey(name), serverName |-> name, users |-> <<>>, modeParams |-> <<>>,
     mode |-> <<>>, topic |-> Undefined, topicBy |-> Undefined]

\* chanData(name, true) (lines 840-853): the channel map after it.
ChanCreate(chans_, name) ==
    IF ChanKey(name) \in DOMAIN chans_ THEN chans_
    ELSE (ChanKey(name) :> NewChannel(name)) @@ chans_

\* chanData(name) is defined.
ChanExists(chans_, name) == ChanKey(name) \in DOMAIN chans_

\* delete this.chans[chanData(name).key] (lines 616-617, 653-654); reading
\* .key of an unknown channel throws.
ChanDelete(r, name) ==
    IF r.threw THEN r
    ELSE IF ~ChanExists(r.chans, name) THEN Throw(r)
    ELSE LET key == r.chans[ChanKey(name)].key
         IN  [r EXCEPT !.chans = [k \in DOMAIN r.chans \ {key} |-> r.chans[k]]]

\* chanData(name) (line 852), read only where it is defined.
ChanData(r, name) == r.chans[ChanKey(name)]

\* Fields of chanData(name) are assigned, when it is defined: ch is the
\* channel after the assignments.
ChanUpdate(r, name, ch) ==
    IF r.threw \/ ~ChanExists(r.chans, name) THEN r
    ELSE [r EXCEPT !.chans[ChanKey(name)] = ch]

\* case rpl_welcome (lines 135-155), with whois() (lines 1253-1264).
OnWelcome(r, msg) ==
    LET r1 == [r EXCEPT !.nick = Arg(msg, 0)]
    IN  IF Arg(msg, 1) = Undefined THEN Throw(r1)
        ELSE LET r2 == UpdateMaxLineLength(
                           [r1 EXCEPT !.hostMask = LastWord(Val(Arg(msg, 1)))])
                 r3 == Emit(r2, "registered", <<>>, <<>>)
                 r4 == IF r3.threw THEN r3
                       ELSE [r3 EXCEPT !.whois = Append(@, Val(r3.nick))]
             IN  CallSend(r4, "WHOIS", Val(r1.nick))

\* this._whoisData[nick] is truthy: an own property, or an inherited one.
WhoisKnown(w, nick) == nick \in DOMAIN w.objects \/ nick \in DOMAIN w.inherited

\* The object this._whoisData[nick] evaluates to, by its fields.
WhoisRecord(w, nick) ==
    IF nick \in DOMAIN w.objects THEN w.objects[nick] ELSE w.inherited[nick]

\* _addWhoisData (lines 1272-1276).  `this._whoisData[nick] || { nick }`
\* keeps an object the lookup already finds, the inherited function
\* included, and the field is then set on that object.
AddWhoisData(w, nick, key, value, onlyIfExists) ==
    IF onlyIfExists /\ ~WhoisKnown(w, nick) THEN w
    ELSE IF nick \in DOMAIN w.objects
         THEN [w EXCEPT !.objects[nick] = (key :> value) @@ @]
    ELSE IF nick \in DOMAIN w.inherited
         THEN [w EXCEPT !.inherited[nick] = (key :> value) @@ @]
    ELSE [w EXCEPT !.objects = (nick :> ((key :> value) @@ ("nick" :> nick))) @@ @]

\* _clearWhoisData (lines 1278-1284): what _whoisData is after it; delete
\* removes an own property only.
ClearWhoisData(w, nick) ==
    LET w1 == AddWhoisData(w, nick, "nick", nick, FALSE)
    IN  [w1 EXCEPT !.objects = [n \in DOMAIN w1.objects \ {nick} |-> w1.objects[n]]]

\* cases rpl_away and rpl_whoisuser (lines 469-476).
OnWhoisReply(r, msg) ==
    LET nick == Val(Arg(msg, 1))
        w == r.whoisData
    IN  IF msg.command = "rpl_away"
        THEN [r EXCEPT !.whoisData = AddWhoisData(w, nick, "away", Val(Arg(msg, 2)), TRUE)]
        ELSE [r EXCEPT !.whoisData =
                 AddWhoisData(
                     AddWhoisData(
                         AddWhoisData(w, nick, "user", Val(Arg(msg, 2)), FALSE),
                         nick, "host", Val(Arg(msg, 3)), FALSE),
                     nick, "realname", Val(Arg(msg, 5)), FALSE)]

\* case rpl_endofwhois (lines 499-501): _clearWhoisData, then the whois
\* event goes to the pending wrappers in order.  The first whose nick matches
\* removes itself and calls the callback of lines 150-154 with the arguments
\* of whois(), the nick string first: args.nick, args.user and args.host are
\* undefined, and _updateMaxLineLength throws.
OnEndOfWhois(r, msg) ==
    LET info == Arg(msg, 1)
        data == IF info = Undefined THEN <<>>
                ELSE WhoisRecord(AddWhoisData(r.whoisData, Val(info), "nick", Val(info), FALSE),
                                 Val(info))
        r0 == IF info = Undefined THEN r
              ELSE [r EXCEPT !.whoisData = ClearWhoisData(@, Val(info))]
        r1 == Emit(r0, "whois", <<>>, data)
        hits == {i \in 1..Len(r.whois) :
                    info # Undefined /\ ToLowerCase(Val(info)) = ToLowerCase(r.whois[i])}
    IN  IF r.whois = <<>> THEN r1
        ELSE IF info = Undefined THEN Throw(r1)
        ELSE IF hits = {} THEN r1
        ELSE LET i == CHOOSE h \in hits : \A j \in hits : h <= j
             IN  UpdateMaxLineLength(
                     [r1 EXCEPT !.whois = SubSeq(@, 1, i - 1) \o SubSeq(@, i + 1, Len(@)),
                                !.nick = Undefined,
                                !.hostMask = UndefinedAtUndefined])

\* case err_nicknameinuse with the collision counter left alone.
OnNicknameInUseNoCount(r, msg) ==
    LET k == IF r.opt.nickMod = Undefined THEN 0 ELSE Val(r.opt.nickMod)
        n == r.opt.nick \o NumberToString(k)
        r1 == CallSend([r EXCEPT !.opt.nickMod = {k}], "NICK", n)
    IN  UpdateMaxLineLength([r1 EXCEPT !.nick = {n}])

\* case err_nicknameinuse (lines 246-252).
OnNicknameInUse(r, msg) ==
    LET k == (IF r.opt.nickMod = Undefined THEN 0 ELSE Val(r.opt.nickMod)) + 1
        n == r.opt.nick \o NumberToString(k)
        r1 == CallSend([r EXCEPT !.opt.nickMod = {k}], "NICK", n)
    IN  UpdateMaxLineLength([r1 EXCEPT !.nick = {n}])

\* case NICK (lines 403-427).  In every channel of this.chans the new nick
\* is assigned what the old nick holds (undefined, the empty set, where it
\* holds nothing) and the old nick is deleted; the event carries the keys
\* of all of them, held here as a set.
OnNick(r, msg) ==
    LET r1 == IF msg.nick = r.nick
              THEN UpdateMaxLineLength([r EXCEPT !.nick = Arg(msg, 0)])
              ELSE r
        Moved(users) ==
            Without((Arg(msg, 0) :> (IF msg.nick \in DOMAIN users THEN users[msg.nick] ELSE {}))
                        @@ users,
                    msg.nick)
        r2 == IF r1.threw THEN r1
              ELSE [r1 EXCEPT !.chans =
                       [k \in DOMAIN r1.chans |->
                           [r1.chans[k] EXCEPT !.users = Moved(@)]]]
    IN  Emit(r2, "nick", <<>>,
             [old |-> msg.nick, new |-> Arg(msg, 0), channels |-> DOMAIN r.chans])

\* case PING (lines 253-256).
OnPing(r, msg) ==
    Emit(CallSend(r, "PONG", <<>>), "ping", <<>>, <<>>)

\* cases err_umodeunknownflag, err_erroneusnickname, err_nooperhost and
\* default (lines 751-796).
OnOther(r, msg) ==
    CASE msg.command = "err_umodeunknownflag" -> r
      [] msg.command = "err_erroneusnickname" -> Emit(r, "error", <<>>, <<>>)
      [] msg.command = "err_nooperhost" ->
             IF r.opt.showErrors THEN Emit(r, "error", <<>>, <<>>) ELSE r
      [] OTHER ->
             IF msg.commandType = "error" THEN Emit(r, "error", <<>>, <<>>) ELSE r

\* The events of JOIN, PART and KICK: name, name + channel and, for a name
\* not in lower case, name + channel.toLowerCase().
EmitForChannel(r, name, channel) ==
    LET r1 == Emit(Emit(r, name, <<>>, channel), name, channel, <<>>)
    IN  IF channel # ToLowerCase(channel) THEN Emit(r1, name, ToLowerCase(channel), <<>>)
        ELSE r1

\* case JOIN (lines 572-591).
OnJoin(r, msg) ==
    LET channel == Val(Arg(msg, 0))
        AddUser(ch) == [ch EXCEPT !.users = (msg.nick :> {<<>>}) @@ @]
        r1 == IF r.nick = msg.nick
              THEN [r EXCEPT !.chans = ChanCreate(r.chans, channel)]
              ELSE ChanUpdate(r, channel, AddUser(ChanData(r, channel)))
    IN  EmitForChannel(r1, "join", channel)

\* supported.channel.modes.d once the server has announced CHANMODES=,,,m
\* (rpl_isupport, lines 172-178).
SupportedModesD == {"m"}

\* supported.channel.modes a, b and c and prefixForMode once the server has
\* announced CHANMODES=b,k,l,m and PREFIX=(o)@ (rpl_isupport, lines 172-178
\* and 204-215): the prefix mode is added to b.
SupportedModes == [a |-> {"b"}, b |-> {"k", "o"}, c |-> {"l"}]

PrefixForMode == ("o" :> "@")

\* chanModes (lines 306-332) on the channel named channel.  param is the
\* argument: arr tells whether it is an array, val is its value or its one
\* element, the empty set for undefined.  Taking a list mode from a channel
\* whose modeParams do not hold the mode reads .filter of undefined.
ChanModes(r, channel, adding, mode, param) ==
    LET ch == ChanData(r, channel)
        held == mode \in DOMAIN ch.modeParams
        Add == [ch EXCEPT
                   !.mode = IF \E i \in 1..Len(@) : @[i] = mode THEN @ ELSE Append(@, mode),
                   !.modeParams =
                       (mode :> (IF param.arr
                                 THEN (IF held THEN @[mode] ELSE <<>>) \o <<param.val>>
                                 ELSE IF param.val = {} THEN <<>>
                                 ELSE <<param.val>>)) @@ @]
        left == IF param.arr
                THEN SelectSeq(ch.modeParams[mode], LAMBDA v : v # param.val)
                ELSE <<>>
        Remove == IF ~param.arr \/ left = <<>>
                  THEN [ch EXCEPT !.mode = SelectSeq(@, LAMBDA m : m # mode),
                                  !.modeParams = Without(@, mode)]
                  ELSE [ch EXCEPT !.modeParams = (mode :> left) @@ @]
    IN  IF r.threw THEN r
        ELSE IF adding THEN ChanUpdate(r, channel, Add)
        ELSE IF param.arr /\ ~held THEN Throw(r)
        ELSE ChanUpdate(r, channel, Remove)

\* A prefix mode (lines 333-347): the prefix is added to or taken from what
\* the channel's users hold for modeArg, if they hold the key; a key that
\* holds undefined has no indexOf and no replace.
PrefixMode(r, channel, adding, mode, modeArg) ==
    LET ch == ChanData(r, channel)
        prefix == PrefixForMode[mode]
        has == \E i \in 1..Len(Val(ch.users[modeArg])) : Val(ch.users[modeArg])[i] = prefix
        first == CHOOSE i \in 1..Len(Val(ch.users[modeArg])) :
                     /\ Val(ch.users[modeArg])[i] = prefix
                     /\ \A j \in 1..(i - 1) : Val(ch.users[modeArg])[j] # prefix
        Changed(p) == IF adding THEN (IF has THEN p ELSE Append(p, prefix))
                      ELSE IF has THEN SubSeq(p, 1, first - 1) \o SubSeq(p, first + 1, Len(p))
                      ELSE p
    IN  IF r.threw \/ modeArg \notin DOMAIN ch.users THEN r
        ELSE IF ch.users[modeArg] = {} THEN Throw(r)
        ELSE ChanUpdate(r, channel,
                        [ch EXCEPT !.users = (modeArg :> {Changed(Val(@[modeArg]))}) @@ @])

\* The loop over modeList (lines 293-401) from its i-th letter on: adding is
\* the sign in force and modeArgs the arguments not yet shifted.  An
\* exception ends the loop.
RECURSIVE ModeLetters(_, _, _, _, _)
ModeLetters(r, msg, i, adding, modeArgs) ==
    LET channel == Val(Arg(msg, 0))
        modeList == Val(Arg(msg, 1))
        mode == modeList[i]
        isPrefix == mode \in DOMAIN PrefixForMode
        isA == ~isPrefix /\ mode \in SupportedModes.a
        isB == ~isPrefix /\ ~isA /\ mode \in SupportedModes.b
        isC == ~isPrefix /\ ~isA /\ ~isB /\ mode \in SupportedModes.c
        isD == ~isPrefix /\ ~isA /\ ~isB /\ ~isC /\ mode \in SupportedModesD
        shifts == isPrefix \/ isA \/ isB \/ (isC /\ adding)
        modeArg == IF shifts /\ modeArgs # <<>> THEN {Head(modeArgs)} ELSE {}
        rest == IF shifts /\ modeArgs # <<>> THEN Tail(modeArgs) ELSE modeArgs
        r1 == IF isPrefix THEN PrefixMode(r, channel, adding, mode, modeArg)
              ELSE IF isA \/ isB \/ isC \/ isD
                   THEN ChanModes(r, channel, adding, mode, [arr |-> isA, val |-> modeArg])
              ELSE r
        r2 == IF isPrefix \/ isA \/ isB \/ isC \/ isD
              THEN Emit(r1, IF adding THEN "+mode" ELSE "-mode", <<>>,
                        [channel |-> channel, mode |-> mode, arg |-> modeArg])
              ELSE r1
    IN  IF r.threw \/ i > Len(modeList) THEN r
        ELSE IF mode = "+" THEN ModeLetters(r, msg, i + 1, TRUE, modeArgs)
        ELSE IF mode = "-" THEN ModeLetters(r, msg, i + 1, FALSE, modeArgs)
        ELSE ModeLetters(r2, msg, i + 1, adding, rest)

\* case MODE (lines 282-402); args[1].split of a MODE without a mode string
\* throws.
OnMode(r, msg) ==
    IF ~ChanExists(r.chans, Val(Arg(msg, 0))) THEN r
    ELSE IF Arg(msg, 1) = Undefined THEN Throw(r)
    ELSE ModeLetters(r, msg, 1, TRUE, SubSeq(msg.args, 3, Len(msg.args)))

\* case TOPIC (lines 544-559).
OnTopic(r, msg) ==
    LET channel == Val(Arg(msg, 0))
        SetTopic(ch) == [ch EXCEPT !.topic = Arg(msg, 1), !.topicBy = msg.nick]
    IN  ChanUpdate(Emit(r, "topic", <<>>, channel), channel, SetTopic(ChanData(r, channel)))

\* A PART that removes the channel whoever parts.
OnPartDropsChannel(r, msg) ==
    ChanDelete(EmitForChannel(r, "part", Val(Arg(msg, 0))), Val(Arg(msg, 0)))

\* case PART (lines 592-624).
OnPart(r, msg) ==
    LET channel == Val(Arg(msg, 0))
        DropUser(ch) == [ch EXCEPT !.users = Without(@, msg.nick)]
        r1 == EmitForChannel(r, "part", channel)
    IN  IF r.nick = msg.nick THEN ChanDelete(r1, channel)
        ELSE ChanUpdate(r1, channel, DropUser(ChanData(r, channel)))

\* The kick listener (lines 800-803).
KickListener(r, channel, who) ==
    IF r.opt.autoRejoin THEN CallSend(r, "JOIN", channel) ELSE r

\* case KICK (lines 625-661); the kick listener runs inside the first emit.
OnKick(r, msg) ==
    LET channel == Val(Arg(msg, 0))
        who == Val(Arg(msg, 1))
        DropUser(ch) == [ch EXCEPT !.users = Without(@, Arg(msg, 1))]
        r1 == KickListener(Emit(r, "kick", <<>>, channel), channel, who)
        r2 == Emit(r1, "kick", channel, <<>>)
        r3 == IF channel # ToLowerCase(channel)
              THEN Emit(r2, "kick", ToLowerCase(channel), <<>>) ELSE r2
    IN  IF r.nick = Arg(msg, 1) THEN ChanDelete(r3, channel)
        ELSE ChanUpdate(r3, channel, DropUser(ChanData(r, channel)))

\* The text a CTCP frame that treats every framed text as an action carries.
CtcpActionTextOfAny(text) == text

\* parts.slice(1).join(" ") of an `ACTION ...` text (lines 1289, 1294-1295):
\* what follows the first space.
CtcpActionText(text) == SubSeq(text, 3, Len(text))

\* _handleCTCP for a PRIVMSG (lines 1286-1298); the texts of the model hold
\* neither VERSION nor PING.
HandleCTCP(r, from, to, text) ==
    LET t1 == Tail(text)
        end == CHOOSE i \in 1..Len(t1) : t1[i] = "CTCP" /\ \A j \in 1..(i - 1) : t1[j] # "CTCP"
        t2 == SubSeq(t1, 1, end - 1)
        r1 == Emit(Emit(r, "ctcp", <<>>, t2), "ctcp-privmsg", <<>>, t2)
    IN  IF Len(t2) >= 2 /\ t2[1] = "ACTION" /\ t2[2] = "SP"
        THEN Emit(r1, "action", <<>>, CtcpActionText(t2))
        ELSE r1

\* case PRIVMSG (lines 672-693).
OnPrivmsg(r, msg) ==
    LET to == Val(Arg(msg, 0))
        text == IF Arg(msg, 1) = Undefined THEN <<>> ELSE Val(Arg(msg, 1))
    IN  IF text # <<>> /\ text[1] = "CTCP" /\ \E i \in 2..Len(text) : text[i] = "CTCP"
        THEN HandleCTCP(r, msg.nick, to, text)
        ELSE LET r1 == Emit(r, "message", <<>>, text)
                 r2 == IF to = <<>> \/ to[1] \in {"&", "#"}
                       THEN LET r3 == Emit(Emit(r1, "message#", <<>>, text), "message", to, text)
                            IN  IF to # ToLowerCase(to)
                                THEN Emit(r3, "message", ToLowerCase(to), text) ELSE r3
                       ELSE r1
             IN  IF r2.nick = Undefined THEN Throw(r2)
                 ELSE IF ToUpperCase(to) = ToUpperCase(Val(r2.nick))
                      THEN Emit(r2, "pm", <<>>, text)
                 ELSE r2

\* The switch of the raw listener (line 134).
Dispatch(r, msg) ==
    CASE msg.command = "rpl_welcome" -> OnWelcome(r, msg)
      [] msg.command \in {"rpl_away", "rpl_whoisuser"} -> OnWhoisReply(r, msg)
      [] msg.command = "rpl_endofwhois" -> OnEndOfWhois(r, msg)
      [] msg.command = "err_nicknameinuse" -> OnNicknameInUse(r, msg)
      [] msg.command = "NICK" -> OnNick(r, msg)
      [] msg.command = "PING" -> OnPing(r, msg)
      [] msg.command = "JOIN" -> OnJoin(r, msg)
      [] msg.command = "MODE" -> OnMode(r, msg)
      [] msg.command = "TOPIC" -> OnTopic(r, msg)
      [] msg.command = "PART" -> OnPart(r, msg)
      [] msg.command = "KICK" -> OnKick(r, msg)
      [] msg.command = "PRIVMSG" -> OnPrivmsg(r, msg)
      [] OTHER -> OnOther(r, msg)

\* The client's fields as a handler finds them.
Run ==
    [opt |-> opt, nick |-> self.nick, hostMask |-> self.hostMask,
     maxLineLength |-> self.maxLineLength, whois |-> self.whois,
     whoisData |-> self.whoisData, chans |-> chans,
     sends |-> <<>>, emits |-> <<>>, threw |-> FALSE]

SelfOf(r) ==
    [nick |-> r.nick, hostMask |-> r.hostMask, maxLineLength |-> r.maxLineLength,
     whois |-> r.whois, whoisData |-> r.whoisData]

---------------------------------------------------------------------------
(* The client: connections, reconnect policy, flood protection and sends.  *)
(* src/unnamed/part_000 lines 811-838 and 855-1132.                        *)
(*                                                                         *)
(* A connection object is a record: the socket's readyState ("opening",    *)
(* "open", "closed"), whether end() was called on it, its close event      *)
(* ("none", "pending": emitted by the runtime but not yet delivered,       *)
(* "delivered"), the requestedDisconnect flag, the retryCount its          *)
(* connect() call was given (captured by the close listener) and its       *)
(* CyclingPingTimer.                                                       *)
(* An exception that leaves a handler ends that handler where it was       *)
(* raised; the state written until then stays.                             *)

NoConn == 0

ConnIds == 1..Len(conns)

NewConn(retryCount) ==
    [readyState |-> "opening", ended |-> FALSE, closeEvent |-> "none",
     requestedDisconnect |-> FALSE, retryCount |-> retryCount,
     timer |-> NewTimer]

\* The outbound state one handler run threads through its send calls: what
\* it has written, the queue, and whether an exception has ended it.
IO == [written |-> <<>>, cmdQueue |-> cmdQueue, threw |-> FALSE]

\* The prototype send() that writes although requestedDisconnect is set.
OrigSendIgnoresFlag(io, cs, cur, cmd, via) ==
    IF io.threw THEN io
    ELSE IF cur = NoConn THEN [io EXCEPT !.threw = TRUE]
    ELSE [io EXCEPT !.written = Append(@, [conn |-> cur, cmd |-> cmd, via |-> via])]

\* The prototype send() (lines 1083-1097): reading requestedDisconnect of a
\* null this.conn throws; otherwise the line is written unless the current
\* connection is marked requestedDisconnect.
OrigSend(io, cs, cur, cmd, via) ==
    IF io.threw THEN io
    ELSE IF cur = NoConn THEN [io EXCEPT !.threw = TRUE]
    ELSE IF ~cs[cur].requestedDisconnect
         THEN [io EXCEPT !.written = Append(@, [conn |-> cur, cmd |-> cmd, via |-> via])]
    ELSE io

\* this.send with flood protection that still writes at once.
SendWritesThrough(io, cs, cur, cmd) == OrigSend(io, cs, cur, cmd, "direct")

\* this.send (line 1083, replaced at lines 1110-1112 when flood protection is
\* active): the command is written by the prototype send, or pushed on
\* cmdQueue.
Send(io, cs, cur, cmd) ==
    IF io.threw THEN io
    ELSE IF opt.floodProtection
         THEN [io EXCEPT !.cmdQueue = Append(@, cmd)]
    ELSE OrigSend(io, cs, cur, cmd, "direct")

RECURSIVE SendAll(_, _, _, _)
SendAll(io, cs, cur, cmds) ==
    IF cmds = <<>> THEN io
    ELSE SendAll(Send(io, cs, cur, Head(cmds)), cs, cur, Tail(cmds))

\* _sendImmediate (lines 1114-1116) is an arrow function: its `arguments`
\* are those of activateFloodProtection (none, or the interval), not the
\* command passed to it.  The prototype send then reads .match of undefined
\* (or of a number) and throws a TypeError before anything is written.
SendImmediate(io, cs, cur, cmd) == [io EXCEPT !.threw = TRUE]

\* _clearCmdQueue (lines 1118-1120).
ClearCmdQueue(io) == [io EXCEPT !.cmdQueue = <<>>]

\* dequeue that takes the newest command.
DequeueNewest(io, cs, cur) ==
    IF io.cmdQueue = <<>> THEN io
    ELSE LET n == Len(io.cmdQueue)
             args == io.cmdQueue[n]
         IN  OrigSend([io EXCEPT !.cmdQueue = SubSeq(@, 1, n - 1)], cs, cur, args, "tick")

\* dequeue (lines 1122-1127): shift one command and hand it to the
\* prototype send.
Dequeue(io, cs, cur) ==
    IF io.cmdQueue = <<>> THEN io
    ELSE LET args == Head(io.cmdQueue)
         IN  OrigSend([io EXCEPT !.cmdQueue = Tail(@)], cs, cur, args, "tick")

\* end() (lines 1051-1057): the current connection's timer is stopped and its
\* socket destroyed (a socket not yet closed will emit close).
EndConn(cs, cur) ==
    IF cur = NoConn THEN cs
    ELSE [cs EXCEPT ![cur].timer = PTStop(@),
                    ![cur].readyState = "closed",
                    ![cur].closeEvent = IF @ = "none" THEN "pending" ELSE @]

\* The retry test with the comparison reversed to a strict one.
RetryExhaustedStrict(retryCount) ==
    \E n \in opt.retryCount : retryCount > n

\* The close listener's retry test (line 1024).
RetryExhausted(retryCount) ==
    \E n \in opt.retryCount : retryCount >= n

\* The fields of opt.webirc; the option is the set of those that are set
\* (all three are "" by default, lines 66-70).
WebircFields == {"ip", "pass", "host"}

\* A handshake that sends PASS as well as the SASL request.
HandshakePassAndSasl ==
    (IF WebircFields \subseteq opt.webirc THEN <<"WEBIRC">> ELSE <<>>)
    \o (IF opt.sasl THEN <<"CAP REQ">> ELSE <<>>)
    \o (IF opt.password THEN <<"PASS">> ELSE <<>>)
    \o <<"NICK", "USER">>

\* The commands of _connectionHandler (lines 855-875), in order.
Handshake ==
    (IF WebircFields \subseteq opt.webirc THEN <<"WEBIRC">> ELSE <<>>)
    \o (IF opt.sasl THEN <<"CAP REQ">> ELSE IF opt.password THEN <<"PASS">> ELSE <<>>)
    \o <<"NICK", "USER">>

Commit(io) ==
    /\ written' = io.written
    /\ cmdQueue' = io.cmdQueue

---------------------------------------------------------------------------
(* Spec: the state after construction (autoConnect: connect() has run with *)
(* retryCount 0; activateFloodProtection() has run when configured), and   *)
(* the handlers.                                                           *)

RetryCounts == {{}} \cup {{n} : n \in 0..MaxRetry}

\* The state after construction with one of the given options.
InitClientWith(opts) ==
    /\ InitTimerIdle
    /\ InitFrameIdle
    /\ InitEngineIdle
    /\ opt \in opts
    /\ conns = <<NewConn(0)>>
    /\ conn = 1
    /\ retryTimers = <<>>
    /\ cmdQueue = <<>>
    /\ written = <<>>
    /\ events = <<>>
    /\ trace = NoTrace
    /\ sends = 0
    /\ pings = 0

InitClient(retryCounts, floodProtection) ==
    InitClientWith({[DefaultOpt EXCEPT !.retryCount = rc,
                                       !.floodProtection = floodProtection] :
                       rc \in retryCounts})

\* A _connectionHandler that also starts the attempt count of connection c
\* afresh.
ConnectionHandlerResetsCount(c) ==
    /\ conns[c].readyState = "opening"
    /\ LET io == SendAll(IO, conns, conn, Handshake)
       IN  /\ Commit(io)
           /\ conns' = IF io.threw \/ conn = NoConn
                       THEN [conns EXCEPT ![c].readyState = "open", ![c].retryCount = 0]
                       ELSE [conns EXCEPT ![c].readyState = "open", ![c].retryCount = 0,
                                          ![conn].timer = PTStart(conns[conn].timer)]
           /\ events' = IF io.threw \/ conn = NoConn THEN events
                        ELSE Append(events, [name |-> "connect", arg |-> conn])
           /\ self' = IF io.threw THEN self
                      ELSE SelfOf(UpdateMaxLineLength([Run EXCEPT !.nick = {opt.nick}]))
    /\ UNCHANGED <<opt, conn, retryTimers, trace, sends, pings, timerVars, frameVars>>

\* _connectionHandler (lines 855-880), run when the socket of connection c
\* has connected.
ConnectionHandler(c) ==
    /\ conns[c].readyState = "opening"
    /\ LET io == SendAll(IO, conns, conn, Handshake)
       IN  /\ Commit(io)
           /\ conns' = IF io.threw \/ conn = NoConn
                       THEN [conns EXCEPT ![c].readyState = "open"]
                       ELSE [conns EXCEPT ![c].readyState = "open",
                                          ![conn].timer = PTStart(conns[conn].timer)]
           /\ events' = IF io.threw \/ conn = NoConn THEN events
                        ELSE Append(events, [name |-> "connect", arg |-> conn])
           /\ self' = IF io.threw THEN self
                      ELSE SelfOf(UpdateMaxLineLength([Run EXCEPT !.nick = {opt.nick}]))
    /\ UNCHANGED <<opt, conn, retryTimers, trace, sends, pings, timerVars, frameVars>>

\* The plain socket of connection c connects (lines 953-956): the connect
\* listener is _connectionHandler.
SocketConnects(c) ==
    /\ ConnectionHandler(c)
    /\ UNCHANGED <<chans, disp, splitVars, tlsVars>>

\* Data arrives on connection c: handleData (lines 981-1013) notifies the
\* current connection's timer and dispatches the messages; a PING message is
\* answered with PONG (lines 253-256).
DataArrives(c, kind) ==
    /\ conns[c].readyState = "open"
    /\ conn # NoConn
    /\ kind = "PING" => trace.serverPings < MaxServerPings
    /\ LET cs == [conns EXCEPT ![conn].timer = PTNotifyOfActivity(@)]
           io == IF kind = "PING" THEN Send(IO, cs, conn, "PONG") ELSE IO
       IN  /\ Commit(io)
           /\ conns' = cs
           /\ trace' = [trace EXCEPT !.serverPings = IF kind = "PING" THEN @ + 1 ELSE @]
    /\ UNCHANGED <<opt, conn, retryTimers, events, sends, pings, timerVars, frameVars, engineVars>>

\* connectionWantsPing(conn) (lines 831-838).
ConnectionWantsPing(io, cs, arg) ==
    IF arg # conn THEN io ELSE Send(io, cs, conn, "PING")

\* The idle timeout of connection c's timer fires: wantPing; the listener of
\* lines 971-973 passes this.conn as it is when the signal is raised.
LoopingTimeoutFires(c) ==
    /\ conns[c].timer.loopingTimeout
    /\ pings < MaxPings
    /\ LET cs == [conns EXCEPT ![c].timer = PTLoopingFires(@)]
           io == ConnectionWantsPing(IO, cs, conn)
       IN  /\ Commit(io)
           /\ conns' = cs
           /\ pings' = IF conn = NoConn /\ ~opt.floodProtection THEN pings ELSE pings + 1
    /\ UNCHANGED <<opt, conn, retryTimers, events, trace, sends, timerVars, frameVars, engineVars>>

\* connectionTimedOut that returns whatever connection it is given.
ConnectionTimedOutIgnored(cs, arg) == [conns |-> cs, conn |-> conn]

\* connectionTimedOut(conn) (lines 822-829): the connections after it, and
\* the new this.conn.
ConnectionTimedOut(cs, arg) ==
    IF arg # conn THEN [conns |-> cs, conn |-> conn]
    ELSE [conns |-> EndConn(cs, conn), conn |-> NoConn]

\* The ping-wait timeout of connection c's timer fires: pingTimeout; the
\* listener of lines 968-970 passes this.conn as it is when the signal is raised.
PingWaitTimeoutFires(c) ==
    /\ conns[c].timer.pingWaitTimeout
    /\ LET cs == [conns EXCEPT ![c].timer = PTPingWaitFires(@)]
           r == ConnectionTimedOut(cs, conn)
       IN  /\ conns' = r.conns
           /\ conn' = r.conn
    /\ written' = <<>>
    /\ UNCHANGED <<opt, retryTimers, cmdQueue, events, trace, sends, pings,
                   timerVars, frameVars, engineVars>>

\* The peer or the network closes the socket of connection c (also a refused
\* connection): the runtime will emit close.
SocketCloses(c) ==
    /\ conns[c].readyState \in {"opening", "open"}
    /\ conns' = [conns EXCEPT ![c].readyState = "closed", ![c].closeEvent = "pending"]
    /\ written' = <<>>
    /\ UNCHANGED <<opt, conn, retryTimers, cmdQueue, events, trace, sends, pings,
                   timerVars, frameVars, engineVars>>

\* The close listener of connection c (lines 1019-1042).
CloseListener(c) ==
    /\ conns[c].closeEvent = "pending"
    /\ LET outcome ==
               IF conn # NoConn /\ conns[conn].requestedDisconnect THEN "suppressed"
               ELSE IF RetryExhausted(conns[c].retryCount) THEN "abort"
               ELSE "retry"
       IN  /\ conns' = [conns EXCEPT ![c].closeEvent = "delivered"]
           /\ events' = IF outcome = "abort"
                        THEN Append(events, [name |-> "abort",
                                             arg |-> CHOOSE n \in opt.retryCount : TRUE])
                        ELSE events
           /\ retryTimers' = IF outcome = "retry"
                             THEN Append(retryTimers, conns[c].retryCount + 1)
                             ELSE retryTimers
    /\ written' = <<>>
    /\ UNCHANGED <<opt, conn, cmdQueue, trace, sends, pings, timerVars, frameVars, engineVars>>

\* The reconnect delay is over: connect(retryCount + 1) (lines 882-1049),
\* which also empties the channel map (line 891).
ReconnectTimerFires ==
    /\ retryTimers # <<>>
    /\ Len(conns) < MaxConn
    /\ conns' = Append(conns, NewConn(Head(retryTimers)))
    /\ conn' = Len(conns) + 1
    /\ retryTimers' = Tail(retryTimers)
    /\ written' = <<>>
    /\ chans' = <<>>
    /\ UNCHANGED <<opt, cmdQueue, events, trace, sends, pings, timerVars, frameVars,
                   self, disp, splitVars, tlsVars>>

\* The caller calls disconnect() (lines 1059-1081).  With this.conn null the
\* call throws at once and changes nothing.
Disconnect ==
    /\ conn # NoConn
    /\ LET open == conns[conn].readyState = "open" /\ ~conns[conn].ended
           io == IF ~open THEN IO
                 ELSE IF opt.floodProtection
                      THEN SendImmediate(ClearCmdQueue(IO), conns, conn, "QUIT")
                 ELSE Send(IO, conns, conn, "QUIT")
       IN  /\ Commit(io)
           /\ conns' = IF io.threw THEN conns
                       ELSE [conns EXCEPT ![conn].requestedDisconnect = TRUE,
                                          ![conn].ended = TRUE]
    /\ UNCHANGED <<opt, conn, retryTimers, events, trace, sends, pings, timerVars, frameVars, engineVars>>

\* The caller calls end() (lines 1051-1057).
End ==
    /\ conn # NoConn
    /\ conns' = EndConn(conns, conn)
    /\ conn' = NoConn
    /\ written' = <<>>
    /\ UNCHANGED <<opt, retryTimers, cmdQueue, events, trace, sends, pings,
                   timerVars, frameVars, engineVars>>

\* The caller calls send() with a command of its own.
CallerSend ==
    /\ sends < MaxSends
    /\ LET io == Send(IO, conns, conn, "CMD")
       IN  /\ Commit(io)
    /\ sends' = sends + 1
    /\ UNCHANGED <<opt, conn, conns, retryTimers, events, trace, pings, timerVars, frameVars, engineVars>>

\* The flood-protection interval ticks (line 1130): dequeue.
FloodTick ==
    /\ opt.floodProtection
    /\ LET io == Dequeue(IO, conns, conn)
       IN  Commit(io)
    /\ UNCHANGED <<opt, conn, conns, retryTimers, events, trace, sends, pings,
                   timerVars, frameVars, engineVars>>

\* Spec: flood protection is off (the default); every retryCount.
Init == InitClient(RetryCounts, FALSE)

\* SpecFlood: flood protection is on; retryCount has its default.
InitFlood == InitClient({DefaultOpt.retryCount}, TRUE)

\* What happens to and on the connections.
Lifetime ==
    \/ \E c \in ConnIds : SocketConnects(c)
    \/ \E c \in ConnIds, kind \in {"PING", "OTHER"} : DataArrives(c, kind)
    \/ \E c \in ConnIds : LoopingTimeoutFires(c)
    \/ \E c \in ConnIds : PingWaitTimeoutFires(c)
    \/ \E c \in ConnIds : SocketCloses(c)
    \/ \E c \in ConnIds : CloseListener(c)
    \/ Disconnect
    \/ End

Next ==
    \/ Lifetime
    \/ ReconnectTimerFires

\* SpecFlood follows the first connection (the reconnect delay never ends).
NextFlood ==
    \/ Lifetime
    \/ CallerSend
    \/ FloodTick

Spec == Init /\ [][Next]_vars

\* SpecFair: Spec, where the runtime delivers every close event it has
\* emitted (the close listener of lines 1019-1042 is an event listener, and
\* the event loop runs it).
SpecFair ==
    Spec /\ WF_vars(\E c \in 1..MaxConn : c \in ConnIds /\ CloseListener(c))

SpecFlood == InitFlood /\ [][NextFlood]_vars

\* SpecSend: SpecFlood with flood protection on or off, where the caller
\* sends and the interval ticks in both configurations.
InitSend ==
    InitClientWith({[DefaultOpt EXCEPT !.floodProtection = fp] : fp \in BOOLEAN})

SpecSend == InitSend /\ [][NextFlood]_vars

---------------------------------------------------------------------------
(* _splitLongLines (src/unnamed/part_000 lines 1185-1221): the text is a  *)
(* sequence of characters, "SP" and "TAB" being the ones /\s/ matches.     *)
(* JavaScript positions count from 0: words[i] is Words[i + 1] here.       *)

SplitChars == {"a", "b", "SP", "TAB"}

IsWhitespace(c) == c \in {"SP", "TAB"}

DefaultMaxLength == 450

\* A cut that keeps the whitespace character at the boundary in the chunk.
CutKeepsWhitespace(words, maxLength) ==
    IF IsWhitespace(words[maxLength + 1])
    THEN [cutPos |-> maxLength + 1, wsLength |-> 0]
    ELSE LET ws == {i \in 1..(maxLength - 1) : IsWhitespace(words[i + 1])}
         IN  IF ws = {} THEN [cutPos |-> maxLength, wsLength |-> 0]
             ELSE [cutPos |-> CHOOSE i \in ws : \A j \in ws : j <= i, wsLength |-> 1]

\* A cut that skips one character after every break, the hard cut included.
CutAlwaysSkips(words, maxLength) ==
    IF IsWhitespace(words[maxLength + 1])
    THEN [cutPos |-> maxLength, wsLength |-> 1]
    ELSE LET ws == {i \in 1..(maxLength - 1) : IsWhitespace(words[i + 1])}
         IN  IF ws = {} THEN [cutPos |-> maxLength, wsLength |-> 1]
             ELSE [cutPos |-> CHOOSE i \in ws : \A j \in ws : j <= i, wsLength |-> 1]

\* Lines 1194-1213, for a text longer than maxLength: where to cut and how
\* many characters to skip after the cut.  The character at the boundary is
\* looked at first, then the ones before it, nearest first, down to
\* position 1 (position 0 is never looked at); with no whitespace found the
\* cut is at the boundary and nothing is skipped.
Cut(words, maxLength) ==
    IF IsWhitespace(words[maxLength + 1])
    THEN [cutPos |-> maxLength, wsLength |-> 1]
    ELSE LET ws == {i \in 1..(maxLength - 1) : IsWhitespace(words[i + 1])}
         IN  IF ws = {} THEN [cutPos |-> maxLength, wsLength |-> 0]
             ELSE [cutPos |-> CHOOSE i \in ws : \A j \in ws : j <= i, wsLength |-> 1]

\* _splitLongLines(words, maxLength, destination).
RECURSIVE SplitLongLines(_, _, _)
SplitLongLines(words, maxLength, destination) ==
    LET limit == IF maxLength = 0 THEN DefaultMaxLength ELSE maxLength
    IN  IF Len(words) = 0 THEN destination
        ELSE IF Len(words) <= limit THEN Append(destination, words)
        ELSE LET cut == Cut(words, limit)
             IN  SplitLongLines(SubSeq(words, cut.cutPos + cut.wsLength + 1, Len(words)),
                                limit,
                                Append(destination, SubSeq(words, 1, cut.cutPos)))

Texts == UNION {[1..n -> SplitChars] : n \in 0..MaxText}

\* SpecSplit: any text and any limit from 1 up; then the call.
InitSplit ==
    /\ InitTimerIdle
    /\ InitClientIdle
    /\ InitFrameIdle
    /\ InitTlsIdle
    /\ InitDispatchIdle
    /\ \E w \in Texts, m \in 1..MaxLimit :
           split = [words |-> w, maxLength |-> m, called |-> FALSE, destination |-> <<>>]

SplitCall ==
    /\ ~split.called
    /\ split' = [split EXCEPT !.called = TRUE,
                              !.destination = SplitLongLines(split.words, split.maxLength, <<>>)]
    /\ UNCHANGED <<timerVars, clientVars, frameVars, tlsVars, dispatchVars>>

NextSplit == SplitCall

SpecSplit == InitSplit /\ [][NextSplit]_vars

---------------------------------------------------------------------------
(* Claims about the long-line splitter, checked under SpecSplit. *)

RECURSIVE Concat(_)
Concat(chunks) == IF chunks = <<>> THEN <<>> ELSE Head(chunks) \o Concat(Tail(chunks))

NonWhitespace(s) == SelectSeq(s, LAMBDA c : ~IsWhitespace(c))

StartsWith(s, p) == Len(p) <= Len(s) /\ SubSeq(s, 1, Len(p)) = p

\* The chunks, rejoined with nothing or with the one whitespace character
\* dropped at each break, give the text (the last break may fall on the
\* text's final character, a whitespace with nothing after it).
RECURSIVE Rejoins(_, _)
Rejoins(chunks, text) ==
    IF chunks = <<>> THEN text = <<>>
    ELSE LET c == Head(chunks)
             rest == SubSeq(text, Len(c) + 1, Len(text))
         IN  /\ StartsWith(text, c)
             /\ IF Len(chunks) = 1
                THEN rest = <<>> \/ (Len(rest) = 1 /\ IsWhitespace(rest[1]))
                ELSE \/ Rejoins(Tail(chunks), rest)
                     \/ /\ rest # <<>>
                        /\ IsWhitespace(rest[1])
                        /\ Rejoins(Tail(chunks), Tail(rest))

\* C16: every chunk the splitter produces is at most the limit long.
C16_ChunksWithinLimit ==
    split.called =>
        \A i \in 1..Len(split.destination) :
            Len(split.destination[i]) <= split.maxLength

\* C16 witness: a text longer than the limit was split into several chunks,
\* one of them exactly the limit long.
C16_Witness ==
    /\ split.called
    /\ Len(split.words) > split.maxLength
    /\ Len(split.destination) >= 2
    /\ \E i \in 1..Len(split.destination) : Len(split.destination[i]) = split.maxLength

\* C17: rejoining the chunks, with the whitespace character where a break
\* fell on one and nothing where it was a hard cut, gives the text: no
\* non-whitespace character is dropped, duplicated or reordered and at most
\* one whitespace character is dropped per break.
C17_RejoinGivesText ==
    split.called =>
        /\ Rejoins(split.destination, split.words)
        /\ NonWhitespace(Concat(split.destination)) = NonWhitespace(split.words)
        /\ Len(split.words) - Len(Concat(split.destination)) \in
               0..Len(split.destination)

\* C17 witness: one text split with a break on whitespace and a hard cut.
C17_Witness ==
    /\ split.called
    /\ Len(split.destination) >= 3
    /\ Len(Concat(split.destination)) = Len(split.words) - 1
    /\ NonWhitespace(split.words) # split.words

---------------------------------------------------------------------------
(* The TLS branch of connect() (src/unnamed/part_000 lines 906-951): the   *)
(* secureConnect callback decides whether _connectionHandler runs.         *)
(* opt.secure is "false", "true", or an object that sets                   *)
(* rejectUnauthorized ("rejectUnauthorized:false", "rejectUnauthorized:true"). *)

SelfSignedErrors ==
    {"DEPTH_ZERO_SELF_SIGNED_CERT", "UNABLE_TO_VERIFY_LEAF_SIGNATURE",
     "SELF_SIGNED_CERT_IN_CHAIN"}

AuthorizationErrors ==
    SelfSignedErrors \cup {"CERT_HAS_EXPIRED", "CERT_REVOKED", "ERR_TLS_CERT_ALTNAME_INVALID"}

\* connectionOpts.rejectUnauthorized (lines 907-914): !selfSigned, unless
\* the secure object sets it.
RejectUnauthorized(o) ==
    IF o.secure = "rejectUnauthorized:false" THEN FALSE
    ELSE IF o.secure = "rejectUnauthorized:true" THEN TRUE
    ELSE ~o.selfSigned

\* A trust test that tolerates the named errors whatever the flags.
TrustedWhateverFlags(o, authorized, authorizationError) ==
    \/ authorized
    \/ \E e \in authorizationError : e \in SelfSignedErrors
    \/ authorizationError = {"CERT_HAS_EXPIRED"}

\* The callback's test (lines 925-932).
Trusted(o, authorized, authorizationError) ==
    \/ authorized
    \/ o.selfSigned /\ \E e \in authorizationError : e \in SelfSignedErrors
    \/ o.certExpired /\ authorizationError = {"CERT_HAS_EXPIRED"}

TlsOpts ==
    {[DefaultOpt EXCEPT !.secure = sec, !.selfSigned = ss, !.certExpired = ce,
                        !.sasl = sa, !.password = pw, !.webirc = wi] :
        sec \in {"true", "rejectUnauthorized:false", "rejectUnauthorized:true"},
        ss \in BOOLEAN, ce \in BOOLEAN, sa \in BOOLEAN, pw \in BOOLEAN,
        wi \in {{}, {"ip", "pass"}, WebircFields}}

\* SpecTls: the state after construction with opt.secure set: connect() has
\* called tlsConnect and the socket is opening.
InitTls == InitClientWith(TlsOpts)

\* The TLS socket connects and the callback of lines 916-951 runs.  A
\* chain that is not authorized gets this far only when rejectUnauthorized
\* is off.
SecureConnect(authorized, authorizationError) ==
    /\ ~tls.secureConnect
    /\ conn # NoConn
    /\ conns[conn].readyState = "opening"
    /\ IF authorized THEN authorizationError = {}
       ELSE authorizationError # {} /\ ~RejectUnauthorized(opt)
    /\ tls' = [secureConnect |-> TRUE, authorized |-> authorized,
               authorizationError |-> authorizationError]
    /\ IF Trusted(opt, authorized, authorizationError)
       THEN ConnectionHandler(conn)
       ELSE /\ conns' = [conns EXCEPT ![conn].readyState = "open"]
            /\ written' = <<>>
            /\ UNCHANGED <<opt, conn, retryTimers, cmdQueue, events, trace, sends, pings,
                           self, timerVars, frameVars>>
    /\ UNCHANGED <<chans, disp, splitVars>>

\* The TLS layer rejects the chain (rejectUnauthorized is on): the callback
\* never runs and the socket closes with an error.
TlsRejected ==
    /\ ~tls.secureConnect
    /\ conn # NoConn
    /\ conns[conn].readyState = "opening"
    /\ RejectUnauthorized(opt)
    /\ conns' = [conns EXCEPT ![conn].readyState = "closed", ![conn].closeEvent = "pending"]
    /\ written' = <<>>
    /\ UNCHANGED <<opt, conn, retryTimers, cmdQueue, events, trace, sends, pings,
                   timerVars, frameVars, engineVars>>

NextTls ==
    \/ \E authorized \in BOOLEAN,
          authorizationError \in {{}} \cup {{e} : e \in AuthorizationErrors} :
           SecureConnect(authorized, authorizationError)
    \/ TlsRejected

SpecTls == InitTls /\ [][NextTls]_vars

---------------------------------------------------------------------------
(* Claims about the TLS trust policy, checked under SpecTls. *)

WrittenCommands == [i \in 1..Len(written) |-> written[i].cmd]

\* C15: once the TLS socket has connected, the registration handshake
\* (the handshake commands, the ping timer's start, the connect event) is
\* done if the chain is authorized, or selfSigned is set and the error is
\* one of the three self-signed ones, or certExpired is set and the error
\* is CERT_HAS_EXPIRED; otherwise nothing is sent and no connect is emitted.
C15_TlsTrustPolicy ==
    tls.secureConnect =>
        LET err == tls.authorizationError
            accepted ==
                \/ tls.authorized
                \/ opt.selfSigned /\ err \in {{"DEPTH_ZERO_SELF_SIGNED_CERT"},
                                             {"UNABLE_TO_VERIFY_LEAF_SIGNATURE"},
                                             {"SELF_SIGNED_CERT_IN_CHAIN"}}
                \/ opt.certExpired /\ err = {"CERT_HAS_EXPIRED"}
        IN  IF accepted
            THEN /\ Len(written) >= 2
                 /\ WrittenCommands = Handshake
                 /\ conns[1].timer.started
                 /\ events = <<[name |-> "connect", arg |-> 1]>>
            ELSE /\ written = <<>>
                 /\ ~conns[1].timer.started
                 /\ events = <<>>

\* C15 witness: a self-signed chain accepted because selfSigned is set.
C15_Witness ==
    /\ tls.secureConnect
    /\ ~tls.authorized
    /\ tls.authorizationError = {"DEPTH_ZERO_SELF_SIGNED_CERT"}
    /\ opt.selfSigned
    /\ events = <<[name |-> "connect", arg |-> 1]>>

\* C28: when the connection handler has run, what was written is, in this
\* order, WEBIRC if ip, pass and host of webirc are all set, then CAP REQ if
\* sasl is set or else PASS if a password is set, then NICK, then USER; the
\* ping timer is started and connect emitted only with all of these written.
C28_HandshakeOrder ==
    LET webirc == IF {"ip", "pass", "host"} \subseteq opt.webirc THEN <<"WEBIRC">> ELSE <<>>
        auth == IF opt.sasl THEN <<"CAP REQ">>
                ELSE IF opt.password THEN <<"PASS">> ELSE <<>>
    IN  (conns[1].timer.started \/ events # <<>>) =>
            /\ WrittenCommands = webirc \o auth \o <<"NICK", "USER">>
            /\ conns[1].timer.started
            /\ events = <<[name |-> "connect", arg |-> 1]>>

\* C28 witness: webirc, sasl and a password are all configured.
C28_Witness ==
    /\ opt.sasl
    /\ opt.password
    /\ opt.webirc = {"ip", "pass", "host"}
    /\ WrittenCommands = <<"WEBIRC", "CAP REQ", "NICK", "USER">>
    /\ events = <<[name |-> "connect", arg |-> 1]>>

---------------------------------------------------------------------------
(* The dispatcher at work: a parsed message reaches the raw listener       *)
(* through handleData (src/unnamed/part_000 lines 981-1013).               *)

\* The names the command table (codes.ts, replyFor) classifies as errors;
\* every other name of the model is a reply or unknown to the table.
ErrorNames ==
    {"err_nicknameinuse", "err_erroneusnickname", "err_nooperhost",
     "err_umodeunknownflag", "err_nosuchnick"}

\* parseMessage (src/src/parse_message.ts lines 39-48): commandType is
\* "normal" unless the table knows the command.
CommandType(command) ==
    IF command \in ErrorNames THEN "error"
    ELSE IF command \in {"rpl_welcome", "rpl_endofwhois", "rpl_away", "rpl_whoisuser"}
         THEN "reply"
    ELSE "normal"

Message(command, nick, args) ==
    [command |-> command, commandType |-> CommandType(command), nick |-> nick,
     args |-> args]

\* Data with one message arrives on connection c: handleData notifies the
\* current connection's timer and emits raw; the listener dispatches the
\* message, and what it passes to this.send is written.  An exception leaves
\* the listener where it is raised and is rethrown to the caller of
\* handleData; what was done before it stays done.
RawListener(c, msg) ==
    /\ conns[c].readyState = "open"
    /\ conn # NoConn
    /\ LET cs == [conns EXCEPT ![conn].timer = PTNotifyOfActivity(@)]
           r == Dispatch(Run, msg)
           io == SendAll(IO, cs, conn, [i \in 1..Len(r.sends) |-> r.sends[i].cmd])
       IN  /\ Commit(io)
           /\ conns' = cs
           /\ opt' = r.opt
           /\ self' = SelfOf(r)
           /\ chans' = r.chans
           /\ disp' = [msg |-> msg, sends |-> r.sends, emits |-> r.emits,
                       threw |-> r.threw,
                       nicknameinuse |-> IF msg.command = "err_nicknameinuse"
                                         THEN disp.nicknameinuse + 1
                                         ELSE disp.nicknameinuse]
    /\ UNCHANGED <<conn, retryTimers, events, trace, sends, pings, timerVars,
                   splitVars, tlsVars>>

\* Any message may arrive.
RawMessage(c, msg) ==
    /\ RawListener(c, msg)
    /\ UNCHANGED frameVars

\* Other nicks and words of the model.
Other == <<"x">>

NewNick == <<"n">>

\* ---- SpecNick: registration, nick changes, error replies and reconnects.

MaxCollisions == 10

MaxWelcomes == 1

WelcomeArgs == {<<Nick, <<"W", "SP", "h">>>>, <<Nick>>}

NickMessages ==
    {Message("rpl_welcome", Undefined, a) : a \in WelcomeArgs}
    \cup {Message("rpl_endofwhois", Undefined, <<Nick, n>>) : n \in {Nick, Other}}
    \cup {Message("err_nicknameinuse", Undefined, <<>>)}
    \cup {Message("NICK", {n}, <<NewNick>>) : n \in {Nick, Other}}
    \cup {Message(c, Undefined, <<>>) :
             c \in {"PING", "err_erroneusnickname", "err_nooperhost",
                    "err_umodeunknownflag", "err_nosuchnick", "FOO"}}

InitNick ==
    InitClientWith({[DefaultOpt EXCEPT !.showErrors = se] : se \in BOOLEAN})

NickMessage(c, msg) ==
    /\ msg.command = "err_nicknameinuse" => disp.nicknameinuse < MaxCollisions
    /\ msg.command = "rpl_welcome" => Len(self.whois) < MaxWelcomes
    /\ RawMessage(c, msg)

NextNick ==
    \/ \E c \in DOMAIN conns : SocketConnects(c)
    \/ \E c \in DOMAIN conns : SocketCloses(c)
    \/ \E c \in DOMAIN conns : CloseListener(c)
    \/ ReconnectTimerFires
    \/ \E c \in DOMAIN conns, msg \in NickMessages : NickMessage(c, msg)

SpecNick == InitNick /\ [][NextNick]_vars

\* SpecRetry: Spec, where the server may also welcome the current
\* connection (rpl_welcome, lines 135-155), so that connections register
\* before they close; connection c is welcomed while fewer than c welcomes
\* have been handled.
WelcomeArrives(c) ==
    /\ c = conn
    /\ Len(self.whois) < c
    /\ RawMessage(c, Message("rpl_welcome", Undefined, <<Nick, <<"W", "SP", "h">>>>))

NextRetry ==
    \/ Next
    \/ \E c \in ConnIds : WelcomeArrives(c)

SpecRetry == Init /\ [][NextRetry]_vars

\* ---- SpecWhois: the welcome, and WHOIS replies about the client's own
\* nick, another nick and a nick that names a member of Object.prototype.

WhoisMessages ==
    {Message("rpl_welcome", Undefined, <<Nick, <<"W", "SP", "h">>>>)}
    \cup {Message("rpl_whoisuser", Undefined, <<Nick, n, <<"u">>, <<"g">>, <<"*">>, <<"r">>>>) :
             n \in {Nick, Other, ValueOf}}
    \cup {Message("rpl_away", Undefined, <<Nick, n, <<"a">>>>) : n \in {Nick, Other, ValueOf}}
    \cup {Message("rpl_endofwhois", Undefined, <<Nick, n>>) : n \in {Nick, Other, ValueOf}}

NextWhois ==
    \/ \E c \in DOMAIN conns : SocketConnects(c)
    \/ \E c \in DOMAIN conns, msg \in WhoisMessages : NickMessage(c, msg)

SpecWhois == InitClientWith({DefaultOpt}) /\ [][NextWhois]_vars

\* ---- SpecChan: the channel map.

ChannelNames == {<<"#", "F">>, <<"#", "f">>, <<"#", "g">>}

ChanMessages ==
    {Message("JOIN", {n}, <<ch>>) : n \in {Nick, Other}, ch \in ChannelNames}
    \cup {Message("PART", {n}, <<ch>>) : n \in {Nick, Other}, ch \in ChannelNames}
    \cup {Message("KICK", {Other}, <<ch, n>>) : n \in {Nick, Other}, ch \in ChannelNames}
    \cup {Message("MODE", {Other}, <<ch, m>>) :
             m \in {<<"+", "m">>, <<"-", "m">>, <<"+", "x">>}, ch \in ChannelNames}
    \cup {Message("TOPIC", {Other}, <<ch, t>>) : t \in {<<"t">>, <<"u">>}, ch \in ChannelNames}

InitChan ==
    InitClientWith({[DefaultOpt EXCEPT !.autoRejoin = ar] : ar \in BOOLEAN})

NextChan ==
    \/ \E c \in DOMAIN conns : SocketConnects(c)
    \/ \E c \in DOMAIN conns, msg \in ChanMessages : RawMessage(c, msg)

SpecChan == InitChan /\ [][NextChan]_vars

\* ---- SpecCtcp: one PRIVMSG, its text any string over the CTCP delimiter
\* ("CTCP": 0x01), the word ACTION, the space and a letter, is on its way
\* (stream holds it, parsed) when the client is constructed.

MaxCtcpText == 5

RECURSIVE StringsUpTo(_, _)
StringsUpTo(chars, n) ==
    IF n = 0 THEN {<<>>}
    ELSE LET shorter == StringsUpTo(chars, n - 1)
         IN  shorter \cup {Append(s, ch) : s \in shorter, ch \in chars}

\* A trailing parameter that is empty is not among args
\* (src/src/parse_message.ts line 58).
CtcpMessages ==
    {Message("PRIVMSG", {Other}, IF text = <<>> THEN <<to>> ELSE <<to, text>>) :
        to \in {Nick, <<"#", "F">>},
        text \in StringsUpTo({"CTCP", "ACTION", "SP", "w"}, MaxCtcpText)}

InitCtcp ==
    /\ InitTimerIdle
    /\ InitEngineIdle
    /\ \E msg \in CtcpMessages : stream = <<msg>>
    /\ received = <<>>
    /\ buffer = <<>>
    /\ raw = <<>>
    /\ last = [called |-> FALSE, input |-> <<>>, emitted |-> <<>>,
               threw |-> FALSE, anyThrow |-> FALSE]
    /\ opt = DefaultOpt
    /\ conns = <<NewConn(0)>>
    /\ conn = 1
    /\ retryTimers = <<>>
    /\ cmdQueue = <<>>
    /\ written = <<>>
    /\ events = <<>>
    /\ trace = NoTrace
    /\ sends = 0
    /\ pings = 0

\* The next message of stream arrives.
PrivmsgArrives(c) ==
    /\ stream # <<>>
    /\ RawListener(c, Head(stream))
    /\ stream' = Tail(stream)
    /\ UNCHANGED <<received, buffer, raw, last>>

NextCtcp ==
    \/ \E c \in DOMAIN conns : SocketConnects(c)
    \/ \E c \in DOMAIN conns : PrivmsgArrives(c)

SpecCtcp == InitCtcp /\ [][NextCtcp]_vars

\* ---- SpecRename: channels are joined, users join them and are given or
\* denied the prefix mode, and users change their nick.

RenameChannels == {<<"#", "f">>, <<"#", "g">>}

RenameMessages ==
    {Message("JOIN", {n}, <<ch>>) : n \in {Nick, Other}, ch \in RenameChannels}
    \cup {Message("MODE", {Nick}, <<ch, m, Other>>) :
             m \in {<<"+", "o">>, <<"-", "o">>}, ch \in RenameChannels}
    \cup {Message("NICK", {Other}, <<NewNick>>), Message("NICK", {NewNick}, <<Other>>)}

NextRename ==
    \/ \E c \in DOMAIN conns : SocketConnects(c)
    \/ \E c \in DOMAIN conns, msg \in RenameMessages : RawMessage(c, msg)

SpecRename == InitClientWith({DefaultOpt}) /\ [][NextRename]_vars

\* ---- SpecMode: the client has joined #f, x has joined it, and one MODE
\* for #f is on its way (stream holds the three messages, parsed): any
\* mode string of up to MaxModeList characters over the signs, the prefix
\* mode o, the modes b, k, l, m of the four types and the unknown mode x,
\* with up to two arguments.

MaxModeList == 3

ModeMessages ==
    {Message("MODE", {Other}, <<<<"#", "f">>, m>> \o modeArgs) :
        m \in StringsUpTo({"+", "-", "o", "b", "k", "l", "m", "x"}, MaxModeList) \ {<<>>},
        modeArgs \in {<<>>} \cup {<<a>> : a \in {Other, <<"p">>}}
                         \cup {<<a, b>> : a, b \in {Other, <<"p">>}}}

InitMode ==
    /\ InitTimerIdle
    /\ InitEngineIdle
    /\ \E msg \in ModeMessages :
          stream = <<Message("JOIN", {Nick}, <<<<"#", "f">>>>),
                     Message("JOIN", {Other}, <<<<"#", "f">>>>), msg>>
    /\ received = <<>>
    /\ buffer = <<>>
    /\ raw = <<>>
    /\ last = [called |-> FALSE, input |-> <<>>, emitted |-> <<>>,
               threw |-> FALSE, anyThrow |-> FALSE]
    /\ opt = DefaultOpt
    /\ conns = <<NewConn(0)>>
    /\ conn = 1
    /\ retryTimers = <<>>
    /\ cmdQueue = <<>>
    /\ written = <<>>
    /\ events = <<>>
    /\ trace = NoTrace
    /\ sends = 0
    /\ pings = 0

NextMode ==
    \/ \E c \in DOMAIN conns : SocketConnects(c)
    \/ \E c \in DOMAIN conns : PrivmsgArrives(c)

SpecMode == InitMode /\ [][NextMode]_vars

----------------------------------------------------------------------------
(* parseMessage (src/src/parse_message.ts lines 14-62; the default export  *)
(* of src/unnamed/part_000 lines 1349-1404 computes the same message).     *)
(* A line is a sequence of characters; "SP" is the space.  The client      *)
(* calls it with opt.stripColors, false by default (part_000 line 62), and *)
(* the lines below carry no colour or style character.                     *)

MaxTrailing == 3
MaxGap == 2

\* The characters \s matches among those of the model.
Whitespace == {"SP"}

\* The class [_a-zA-Z0-9\~\[\]\\`^{}|-] restricted to the model's characters.
NickChars == {"x", "n", "u", "h", "a", "b", "t", "C", "0", "1", "-", "_"}

\* [^ ]* at the start of s: the length of the longest run without a space.
TokenLength(s) ==
    CHOOSE n \in 0..Len(s) :
        /\ \A i \in 1..n : s[i] # "SP"
        /\ n = Len(s) \/ s[n + 1] = "SP"

\* " *" at the start of s: the length of the run of spaces.
GapLength(s) ==
    CHOOSE n \in 0..Len(s) :
        /\ \A i \in 1..n : s[i] = "SP"
        /\ n = Len(s) \/ s[n + 1] # "SP"

\* s.replace(/^[^ ]+ +/, ""): a first token followed by at least one space
\* is removed with its spaces; any other s is returned as it is.
DropToken(s) ==
    LET n == TokenLength(s)
        rest == SubSeq(s, n + 1, Len(s))
    IN  IF n > 0 /\ GapLength(rest) > 0
        THEN SubSeq(rest, GapLength(rest) + 1, Len(rest))
        ELSE s

\* s.split(/ +/).
RECURSIVE SplitSpaces(_)
SplitSpaces(s) ==
    LET n == TokenLength(s)
        rest == SubSeq(s, n + 1, Len(s))
    IN  IF n = Len(s) THEN <<s>>
        ELSE <<SubSeq(s, 1, n)>> \o SplitSpaces(SubSeq(rest, GapLength(rest) + 1, Len(rest)))

\* The prefix (lines 22-36): /^:([^ ]+) +/ needs a colon, a token and a
\* space after it; /^([nick characters]*)(!([^@]+)@(.*))?$/ splits it, and a
\* prefix it does not match is the server.
ParsePrefix(line) ==
    LET body == SubSeq(line, 2, Len(line))
        n == TokenLength(body)
        prefix == SubSeq(body, 1, n)
        k == CHOOSE j \in 0..n :
                 /\ \A i \in 1..j : prefix[i] \in NickChars
                 /\ j = n \/ prefix[j + 1] \notin NickChars
        ats == {j \in (k + 1)..n : prefix[j] = "@"}
        at == CHOOSE j \in ats : \A i \in ats : j <= i
        none == [prefix |-> {}, nick |-> {}, user |-> {}, host |-> {}, server |-> {}]
    IN  IF line = <<>> \/ line[1] # ":" \/ n = 0 \/ n = Len(body) THEN none
        ELSE IF k = n
             THEN [none EXCEPT !.prefix = {prefix}, !.nick = {prefix}]
        ELSE IF prefix[k + 1] = "!" /\ ats # {} /\ at > k + 2
             THEN [none EXCEPT !.prefix = {prefix}, !.nick = {SubSeq(prefix, 1, k)},
                               !.user = {SubSeq(prefix, k + 2, at - 1)},
                               !.host = {SubSeq(prefix, at + 1, n)}]
        ELSE [none EXCEPT !.prefix = {prefix}, !.server = {prefix}]

\* replyFor (codes.ts): the table's entry for a raw command, the empty set
\* where it has none.
ReplyFor(rawCommand) ==
    IF rawCommand = <<"0", "0", "1">> THEN {[name |-> "rpl_welcome", type |-> "reply"]}
    ELSE {}

\* The parameters (lines 50-59): the first colon at the start or after
\* whitespace separates middle from trailing; an empty middle and an empty
\* trailing add nothing.
ParseArgsSplitsAll(line) ==
    IF line = <<>> THEN <<>> ELSE SplitSpaces(line)

ParseArgs(line) ==
    LET marks == {k \in 0..(Len(line) - 1) :
                     \/ k = 0 /\ line[1] = ":"
                     \/ \E m \in (k + 1)..(Len(line) - 1) :
                            /\ \A i \in (k + 1)..m : line[i] \in Whitespace
                            /\ line[m + 1] = ":"}
        k == CHOOSE j \in marks : \A i \in marks : j <= i
        colon == CHOOSE m \in (k + 1)..Len(line) :
                     /\ line[m] = ":"
                     /\ \A i \in (k + 1)..(m - 1) : line[i] \in Whitespace
        middle == IF marks = {} THEN line ELSE SubSeq(line, 1, k)
        trailing == IF marks = {} THEN <<>> ELSE SubSeq(line, colon + 1, Len(line))
    IN  (IF middle # <<>> THEN SplitSpaces(middle) ELSE <<>>)
        \o (IF trailing # <<>> THEN <<trailing>> ELSE <<>>)

\* parseMessage(line, false).  line.match(/^([^ ]+) */) is null for a line
\* without a first token, and reading the null throws.
ParseMessage(line) ==
    LET p == ParsePrefix(line)
        l1 == IF p.prefix = {} THEN line ELSE DropToken(line)
        n == TokenLength(l1)
        rawCommand == SubSeq(l1, 1, n)
        reply == ReplyFor(rawCommand)
    IN  IF n = 0 THEN [threw |-> TRUE]
        ELSE [threw |-> FALSE, prefix |-> p.prefix, nick |-> p.nick, user |-> p.user,
              host |-> p.host, server |-> p.server, rawCommand |-> rawCommand,
              command |-> IF reply = {} THEN rawCommand ELSE Val(reply).name,
              commandType |-> IF reply = {} THEN "normal" ELSE Val(reply).type,
              args |-> ParseArgs(DropToken(l1))]

\* ---- SpecParse: the server composes one message (an optional prefix of
\* one part, a server or a nick, or of three, nick, user and host; a command;
\* middle parameters; an optional trailing parameter; gap spaces between the
\* tokens) and its line is parsed.  last.input keeps what was composed.

Join(parts) ==
    IF Len(parts) = 3 THEN parts[1] \o <<"!">> \o parts[2] \o <<"@">> \o parts[3]
    ELSE parts[1]

Gap(n) == [i \in 1..n |-> "SP"]

RECURSIVE Middle(_, _)
Middle(params, gap) ==
    IF params = <<>> THEN <<>>
    ELSE Gap(gap) \o Head(params) \o Middle(Tail(params), gap)

Render(m) ==
    (IF m.prefix = <<>> THEN <<>> ELSE <<":">> \o Join(m.prefix) \o Gap(m.gap))
    \o m.command \o Middle(m.middle, m.gap)
    \o (IF m.trailing = {} THEN <<>> ELSE Gap(m.gap) \o <<":">> \o Val(m.trailing))

ServerMessages ==
    [prefix : {<<>>, <<Other>>, <<<<"h", ".", "h">>>>, <<<<"n">>, <<"u">>, <<"h">>>>,
               <<<<"n", "-">>, <<"u">>, <<"h", ".", "h">>>>},
     command : {<<"C">>, <<"0", "0", "1">>},
     middle : {<<>>} \cup {<<a>> : a \in {<<"a">>, <<"b">>, <<"a", ":">>}}
                    \cup {<<a, b>> : a, b \in {<<"a">>, <<"b">>, <<"a", ":">>}},
     trailing : {{}} \cup {{t} : t \in StringsUpTo({"t", "SP", ":"}, MaxTrailing)},
     gap : 1..MaxGap]

InitParse ==
    /\ InitTimerIdle
    /\ InitClientIdle
    /\ InitEngineIdle
    /\ \E m \in ServerMessages :
          /\ stream = <<Render(m)>>
          /\ last = [called |-> FALSE, input |-> m, emitted |-> <<>>,
                     threw |-> FALSE, anyThrow |-> FALSE]
    /\ received = <<>>
    /\ buffer = <<>>
    /\ raw = <<>>

\* handleData (part_000 line 1002) parses the line.
ParseLine ==
    /\ stream # <<>>
    /\ disp' = [disp EXCEPT !.msg = ParseMessage(Head(stream))]
    /\ stream' = Tail(stream)
    /\ last' = [last EXCEPT !.called = TRUE]
    /\ UNCHANGED <<timerVars, clientVars, splitVars, tlsVars, self, chans,
                   received, buffer, raw>>

NextParse == ParseLine

SpecParse == InitParse /\ [][NextParse]_vars

\* ---- SpecChunk: one chunk of complete lines arrives on the connection,
\* before or after the caller's disconnect().  A line is a command the
\* dispatcher ignores, a line parseMessage throws on (it starts with a
\* space), or a 001 without parameters, on which the rpl_welcome case
\* throws.

MaxLines == 3

ChunkLines == {<<"C">>, <<"SP", "C">>, <<"0", "0", "1">>}

Chunks == UNION {[1..n -> ChunkLines] : n \in 1..MaxLines}

\* The parsed message as the raw listener reads it: its cases go by the
\* command's name, and a command the table does not know is none of them.
MessageOf(p) ==
    [command |-> IF ReplyFor(p.rawCommand) = {} THEN "other" ELSE p.command,
     commandType |-> p.commandType, nick |-> p.nick, args |-> p.args]

\* What a raw listener's run r leaves of one line of handleData's loop
\* (lines 1003-1011): its exception is rethrown unless the current
\* connection is marked requestedDisconnect.
Listened(r, raised, requestedDisconnect) ==
    IF r.threw /\ ~requestedDisconnect
    THEN [r |-> r, emitted |-> raised, threw |-> TRUE]
    ELSE [r |-> [r EXCEPT !.threw = FALSE], emitted |-> raised, threw |-> FALSE]

\* One line of handleData's loop (lines 1000-1012), p being what
\* parseMessage made of it: parseMessage is called outside the try block,
\* so its exception leaves the handler whatever the flag; otherwise the
\* message is raised as raw.
EachLine(st, line, p, requestedDisconnect) ==
    IF p.threw THEN [st EXCEPT !.threw = TRUE]
    ELSE Listened(Dispatch(st.r, MessageOf(p)), Append(st.emitted, line),
                  requestedDisconnect)

\* lines.forEach of handleData (lines 1000-1012) from the i-th line on: st
\* holds the client's fields, the lines raised as raw and whether an
\* exception has left the handler; an empty line is skipped.
RECURSIVE ForEachLine(_, _, _, _)
ForEachLine(st, lines, i, requestedDisconnect) ==
    IF i > Len(lines) \/ st.threw THEN st
    ELSE ForEachLine(IF lines[i] = <<>> THEN st
                     ELSE EachLine(st, lines[i], ParseMessage(lines[i]),
                                   requestedDisconnect),
                     lines, i + 1, requestedDisconnect)

InitChunk ==
    /\ InitTimerIdle
    /\ InitEngineIdle
    /\ stream \in Chunks
    /\ received = <<>>
    /\ buffer = <<>>
    /\ raw = <<>>
    /\ last = [called |-> FALSE, input |-> <<>>, emitted |-> <<>>,
               threw |-> FALSE, anyThrow |-> FALSE]
    /\ opt = DefaultOpt
    /\ conns = <<NewConn(0)>>
    /\ conn = 1
    /\ retryTimers = <<>>
    /\ cmdQueue = <<>>
    /\ written = <<>>
    /\ events = <<>>
    /\ trace = NoTrace
    /\ sends = 0
    /\ pings = 0

\* The lines of stream arrive on connection c as one chunk: handleData
\* (lines 981-1013) notifies the current connection's timer, then parses
\* and raises each line.  last.input keeps the lines and the flag the
\* handler found.
ChunkArrives(c) ==
    /\ conns[c].readyState = "open"
    /\ conn # NoConn
    /\ stream # <<>>
    /\ LET cs == [conns EXCEPT ![conn].timer = PTNotifyOfActivity(@)]
           st == ForEachLine([r |-> Run, emitted |-> <<>>, threw |-> FALSE], stream, 1,
                             conns[conn].requestedDisconnect)
           io == SendAll(IO, cs, conn, [i \in 1..Len(st.r.sends) |-> st.r.sends[i].cmd])
       IN  /\ Commit(io)
           /\ conns' = cs
           /\ opt' = st.r.opt
           /\ self' = SelfOf(st.r)
           /\ chans' = st.r.chans
           /\ raw' = raw \o st.emitted
           /\ last' = [called |-> TRUE,
                       input |-> [lines |-> stream,
                                  requestedDisconnect |-> conns[conn].requestedDisconnect],
                       emitted |-> st.emitted, threw |-> st.threw,
                       anyThrow |-> last.anyThrow \/ st.threw]
    /\ stream' = <<>>
    /\ UNCHANGED <<conn, retryTimers, events, trace, sends, pings, timerVars,
                   received, buffer, disp, splitVars, tlsVars>>

\* The caller's disconnect().
CallerDisconnects ==
    /\ Disconnect
    /\ UNCHANGED <<chans, self, disp>>

NextChunk ==
    \/ \E c \in DOMAIN conns : SocketConnects(c)
    \/ \E c \in DOMAIN conns : ChunkArrives(c)
    \/ CallerDisconnects

SpecChunk == InitChunk /\ [][NextChunk]_vars

---------------------------------------------------------------------------
(* Claims about the connection lifecycle, checked under Spec. *)

Aborts == SelectSeq(events, LAMBDA e : e.name = "abort")

NoneRequested == \A c \in ConnIds : ~conns[c].requestedDisconnect

AllClosesDelivered == \A c \in ConnIds : conns[c].closeEvent = "delivered"

\* C1: with retryCount = N and no caller-requested disconnect, at most N
\* reconnect attempts follow the first connect; abort is emitted at most once
\* and carries N; when it has been emitted exactly N reconnects were made and
\* no reconnect is pending (so none follows); and once every connection has
\* closed with no reconnect pending, abort has been emitted.
C1_ReconnectCap ==
    \A N \in opt.retryCount :
        NoneRequested =>
            /\ Len(conns) <= N + 1
            /\ Len(Aborts) <= 1
            /\ \A i \in 1..Len(Aborts) : Aborts[i].arg = N
            /\ Aborts # <<>> => (Len(conns) = N + 1 /\ retryTimers = <<>>)
            /\ (AllClosesDelivered /\ retryTimers = <<>>) => Len(Aborts) = 1

\* C1 witness: retryCount 2, three unrequested closes, one abort carrying 2.
C1_Witness ==
    /\ opt.retryCount = {2}
    /\ NoneRequested
    /\ Len(conns) = 3
    /\ AllClosesDelivered
    /\ Aborts = <<[name |-> "abort", arg |-> 2]>>

\* C2: the close of a connection on which disconnect() has been called
\* schedules no reconnect and emits no abort.
C2_RequestedCloseNeverReconnects ==
    [][\A c \in ConnIds :
          (CloseListener(c) /\ conns[c].requestedDisconnect)
              => (retryTimers' = retryTimers /\ events' = events)]_vars

\* C3: a wantPing of a superseded connection's timer sends no PING (nothing
\* is written or queued), and its pingTimeout does not end the current
\* connection.
C3_StaleTimerSignalsIgnored ==
    [][\A c \in ConnIds :
          (c # conn /\ conn # NoConn) =>
              /\ LoopingTimeoutFires(c) => (written' = <<>> /\ cmdQueue' = cmdQueue)
              /\ PingWaitTimeoutFires(c) => (conn' = conn /\ conns'[conn] = conns[conn])]_vars

\* C11: when disconnect() has marked the current connection while a
\* reconnect delay is pending, no further connect attempt is made.
C11_DisconnectCancelsReconnect ==
    [][(conn # NoConn /\ conns[conn].requestedDisconnect /\ retryTimers # <<>>)
          => Len(conns') = Len(conns)]_vars

\* C27: at most one connection's ping timer is started at any moment, and
\* the timer of a connection that is no longer the current one is stopped.
C27_OneTimerRunning ==
    /\ \A c1 \in DOMAIN conns, c2 \in DOMAIN conns :
           (conns[c1].timer.started /\ conns[c2].timer.started) => c1 = c2
    /\ \A c \in DOMAIN conns :
           (conn # NoConn /\ c # conn) => ~conns[c].timer.started

---------------------------------------------------------------------------
(* Claims about flood protection, checked under SpecFlood. *)

CurrentOpen ==
    conn # NoConn /\ conns[conn].readyState = "open" /\ ~conns[conn].ended

\* C9: disconnect() on an open connection with flood protection active
\* writes QUIT during the call, leaves the queue empty, marks the connection
\* requestedDisconnect and ends the socket.
C9_DisconnectWritesQuit ==
    [][(Disconnect /\ opt.floodProtection /\ CurrentOpen) =>
          /\ Len(written') = 1
          /\ written'[1].cmd = "QUIT" /\ written'[1].conn = conn
          /\ cmdQueue' = <<>>
          /\ conns'[conn].requestedDisconnect
          /\ conns'[conn].ended]_vars

\* C10 as claimed: a tick writes exactly one command when the queue is
\* non-empty, and nothing when it is empty.
C10_TickWritesOne ==
    [][FloodTick =>
          IF cmdQueue # <<>> THEN Len(written') = 1 ELSE written' = <<>>]_vars

\* C10 as amended: with flood protection active nothing is written except by
\* a tick; send() appends to the queue; a tick takes the oldest command off a
\* non-empty queue and writes it to the current connection unless there is
\* none or it is marked requestedDisconnect (the command is then dropped);
\* a tick on an empty queue writes nothing.
C10_QueueIsFifoAndPaced ==
    [][/\ \A i \in 1..Len(written') : written'[i].via = "tick"
       /\ CallerSend => (written' = <<>> /\ cmdQueue' = Append(cmdQueue, "CMD"))
       /\ FloodTick =>
              IF cmdQueue = <<>> THEN written' = <<>> /\ cmdQueue' = <<>>
              ELSE /\ cmdQueue' = Tail(cmdQueue)
                   /\ written' =
                          IF conn # NoConn /\ ~conns[conn].requestedDisconnect
                          THEN <<[conn |-> conn, cmd |-> Head(cmdQueue), via |-> "tick"]>>
                          ELSE <<>>]_vars

\* C10 witness: a tick has written the oldest command while later ones,
\* the caller's among them, wait in the queue.
C10_Witness ==
    /\ opt.floodProtection
    /\ written = <<[conn |-> 1, cmd |-> "NICK", via |-> "tick"]>>
    /\ Len(cmdQueue) >= 2
    /\ cmdQueue[1] = "USER"
    /\ cmdQueue[Len(cmdQueue)] = "CMD"

---------------------------------------------------------------------------
(* Claims about nick handling and error replies, checked under SpecNick. *)

\* k in decimal, for k below 100.
Decimal(k) ==
    LET d == [i \in 0..9 |-> <<"0", "1", "2", "3", "4", "5", "6", "7", "8", "9">>[i + 1]]
    IN  IF k < 10 THEN <<d[k]>> ELSE <<d[k \div 10], d[k % 10]>>

\* C12: the step that receives the k-th err_nicknameinuse reply makes the
\* client send exactly one command, NICK with the configured nick followed
\* by the decimal k, written to the socket, and sets the local nick to that
\* same value.
C12_CollisionAppendsCount ==
    [][disp'.nicknameinuse = disp.nicknameinuse + 1 =>
          LET n == opt.nick \o Decimal(disp'.nicknameinuse)
          IN  /\ disp'.msg.command = "err_nicknameinuse"
              /\ disp'.sends = <<[cmd |-> "NICK", arg |-> n]>>
              /\ written' = <<[conn |-> conn, cmd |-> "NICK", via |-> "direct"]>>
              /\ self'.nick = {n}]_vars

\* The tenth collision has been answered: NICK bot10.
C12_Witness ==
    /\ disp.msg.command = "err_nicknameinuse"
    /\ disp.nicknameinuse = 10
    /\ disp.sends = <<[cmd |-> "NICK", arg |-> <<"b", "o", "t", "1", "0">>]>>
    /\ written = <<[conn |-> conn, cmd |-> "NICK", via |-> "direct"]>>
    /\ self.nick = {<<"b", "o", "t", "1", "0">>}

\* C18: a message whose commandType is error is emitted as an error event
\* whatever showErrors is, and a message with an unknown command that is
\* not an error emits nothing and changes nothing of the client.
C18_ErrorsAlwaysEmitted ==
    [][/\ disp'.msg.commandType = "error" =>
              \E i \in 1..Len(disp'.emits) : disp'.emits[i].name = "error"
       /\ (disp'.msg # disp.msg /\ disp'.msg.command = "FOO") =>
              /\ disp'.emits = <<>>
              /\ disp'.sends = <<>>
              /\ UNCHANGED <<opt, self, chans>>]_vars

\* C20: after every message dispatch that completed, the client has a nick
\* and maxLineLength is 497 less the lengths of the nick and the hostMask.
C20_MaxLineLengthTracksNick ==
    (disp.msg # NoMessage /\ ~disp.threw) =>
        /\ self.nick # Undefined
        /\ \A n \in self.nick :
               self.maxLineLength = 497 - Len(n) - Len(self.hostMask)

---------------------------------------------------------------------------
(* Claims about WHOIS, checked under SpecWhois. *)

\* The nick the last WHOIS reply is about.
WhoisNick == disp.msg.args[2]

\* The whois events of the last dispatch.
WhoisEvents == {i \in 1..Len(disp.emits) : disp.emits[i].name = "whois"}

\* C21: a rpl_whoisuser reply leaves a pending record for its nick that
\* holds the reply's fields; rpl_endofwhois emits exactly one
\* whois event, whose record holds at least the nick and whatever the
\* pending record held, and afterwards nothing is pending for that nick.
C21_WhoisRecordEmittedAndCleared ==
    /\ [](disp.msg.command = "rpl_whoisuser" =>
             /\ WhoisKnown(self.whoisData, WhoisNick)
             /\ LET rec == WhoisRecord(self.whoisData, WhoisNick)
                IN  /\ {"user", "host", "realname"} \subseteq DOMAIN rec
                    /\ rec["user"] = disp.msg.args[3]
                    /\ rec["host"] = disp.msg.args[4])
    /\ [](disp.msg.command = "rpl_endofwhois" =>
             /\ Cardinality(WhoisEvents) = 1
             /\ \A i \in WhoisEvents :
                    /\ "nick" \in DOMAIN disp.emits[i].text
                    /\ disp.emits[i].text["nick"] = WhoisNick
             /\ ~WhoisKnown(self.whoisData, WhoisNick))
    /\ [][disp'.msg.command = "rpl_endofwhois" =>
             LET n == disp'.msg.args[2]
             IN  WhoisKnown(self.whoisData, n) =>
                     \A k \in DOMAIN WhoisRecord(self.whoisData, n) :
                         /\ k \in DOMAIN disp'.emits[1].text
                         /\ disp'.emits[1].text[k] = WhoisRecord(self.whoisData, n)[k]]_vars

\* C22: a whois event for a nick no whois() callback waits for leaves the
\* subscriptions and the hostMask alone; a whois event for the nick of a
\* pending whois() unsubscribes the first such callback only and hands it the
\* record: the callback of the welcome sets nick and hostMask to the
\* record's nick and user@host.
C22_WhoisCallbackOneShot ==
    [][disp'.msg.command = "rpl_endofwhois" =>
          LET n == disp'.msg.args[2]
              rec == disp'.emits[1].text
              waiting == {i \in 1..Len(self.whois) :
                             ToLowerCase(self.whois[i]) = ToLowerCase(n)}
          IN  IF waiting = {}
              THEN /\ self'.whois = self.whois
                   /\ self'.hostMask = self.hostMask
                   /\ self'.nick = self.nick
              ELSE /\ Len(self'.whois) = Len(self.whois) - 1
                   /\ self'.nick = {rec["nick"]}
                   /\ {"user", "host"} \subseteq DOMAIN rec =>
                          self'.hostMask = rec["user"] \o <<"@">> \o rec["host"]]_vars

---------------------------------------------------------------------------
(* Claims about CTCP framing, checked under SpecCtcp. *)

\* The text of the PRIVMSG dispatched.
PrivmsgText == IF Len(disp.msg.args) >= 2 THEN disp.msg.args[2] ELSE <<>>

\* The text starts with the delimiter and holds a second one.
Framed(text) ==
    /\ text # <<>>
    /\ text[1] = "CTCP"
    /\ \E i \in 2..Len(text) : text[i] = "CTCP"

\* What stands between the first delimiter and the next.
Between(text) ==
    LET j == CHOOSE i \in 2..Len(text) :
                 text[i] = "CTCP" /\ \A k \in 2..(i - 1) : text[k] # "CTCP"
    IN  SubSeq(text, 2, j - 1)

\* C13: a PRIVMSG whose text is CTCP-framed emits no message, message#,
\* message<channel> or pm event, and when the framed text is ACTION, a space
\* and a text, an action event carrying that text is emitted.
C13_CtcpNeverPlainMessage ==
    (disp.msg.command = "PRIVMSG" /\ Framed(PrivmsgText)) =>
        /\ \A i \in 1..Len(disp.emits) :
               disp.emits[i].name \notin {"message", "message#", "pm"}
        /\ \A rest \in StringsUpTo({"CTCP", "ACTION", "SP", "w"}, MaxCtcpText) :
               Between(PrivmsgText) = <<"ACTION", "SP">> \o rest =>
                   \E i \in 1..Len(disp.emits) :
                       /\ disp.emits[i].name = "action"
                       /\ disp.emits[i].text = rest

\* `ACTION w` framed and sent to the client's own nick: the action event
\* carries `w`.
C13_Witness ==
    /\ disp.msg.command = "PRIVMSG"
    /\ disp.msg.args = <<Nick, <<"CTCP", "ACTION", "SP", "w", "CTCP">>>>
    /\ \E i \in 1..Len(disp.emits) :
           disp.emits[i].name = "action" /\ disp.emits[i].text = <<"w">>

---------------------------------------------------------------------------
(* Claims about the channel map, checked under SpecChan. *)

\* Two names that differ at most in the case of their letters.
SameName(a, b) ==
    /\ Len(a) = Len(b)
    /\ \A i \in 1..Len(a) :
           \/ a[i] = b[i]
           \/ {a[i], b[i]} \in {{"F", "f"}, {"G", "g"}}

\* The channel the last message names.
Referenced == disp.msg.args[1]

\* C14: the channel map never holds two entries whose names differ only in
\* case, and after a TOPIC or MODE that names, in any case, a channel the
\* client has joined, it is that one entry that carries the topic, or has
\* gained or lost the mode.
C14_ChannelCaseInvariant ==
    /\ \A k1 \in DOMAIN chans, k2 \in DOMAIN chans :
           SameName(chans[k1].serverName, chans[k2].serverName) => k1 = k2
    /\ \A k \in DOMAIN chans :
           SameName(chans[k].serverName, Referenced) =>
               /\ disp.msg.command = "TOPIC" =>
                      /\ chans[k].topic = {disp.msg.args[2]}
                      /\ chans[k].topicBy = disp.msg.nick
               /\ (disp.msg.command = "MODE" /\ disp.msg.args[2] = <<"+", "m">>) =>
                      /\ \E i \in 1..Len(chans[k].mode) : chans[k].mode[i] = "m"
                      /\ "m" \in DOMAIN chans[k].modeParams
               /\ (disp.msg.command = "MODE" /\ disp.msg.args[2] = <<"-", "m">>) =>
                      /\ \A i \in 1..Len(chans[k].mode) : chans[k].mode[i] # "m"
                      /\ "m" \notin DOMAIN chans[k].modeParams

\* The client joined #F; a TOPIC for #f has set the topic of that entry.
C14_Witness ==
    /\ disp.msg.command = "TOPIC"
    /\ Referenced = <<"#", "f">>
    /\ \E k \in DOMAIN chans :
           /\ chans[k].serverName = <<"#", "F">>
           /\ chans[k].topic = {<<"t">>}

\* C19: a KICK makes the client send JOIN for the channel exactly when
\* autoRejoin is configured and the kicked nick is the client's own.
C19_RejoinIffSelfKicked ==
    disp.msg.command = "KICK" =>
        ((\E i \in 1..Len(disp.sends) :
              disp.sends[i] = [cmd |-> "JOIN", arg |-> Referenced])
         <=> (opt.autoRejoin /\ self.nick = {disp.msg.args[2]}))

---------------------------------------------------------------------------
(* Claims about the parser, checked under SpecParse.                      *)

\* The line of last.input has been parsed without an exception.
Parsed == last.called /\ ~disp.msg.threw

C24_NoTrailingArgsAreParams ==
    (Parsed /\ last.input.trailing = {}) => disp.msg.args = last.input.middle

---------------------------------------------------------------------------
(* Claims about NICK and MODE.                                            *)

\* A message is dispatched in this step: the connection is open, and under
\* SpecRename only the raw listener acts on an open connection.
Renamed(o, n) ==
    /\ conns[conn].readyState = "open"
    /\ disp'.msg.command = "NICK"
    /\ disp'.msg.nick = {o}
    /\ disp'.msg.args = <<n>>

\* The channels whose user map holds the nick.
ChannelsOf(nick) == {k \in DOMAIN chans : {nick} \in DOMAIN chans[k].users}

\* C29: a NICK from o to n moves the entry of o to n, prefix preserved, in
\* every channel that holds o, leaves every other channel as it was (no
\* entry for n appears), and emits exactly one nick event, whose channel
\* list is exactly the channels that held o.
C29_NickMovesEntries ==
    [][\A o, n \in {Other, NewNick} :
          Renamed(o, n) =>
              /\ \A k \in ChannelsOf(o) :
                     /\ {n} \in DOMAIN chans'[k].users
                     /\ chans'[k].users[{n}] = chans[k].users[{o}]
                     /\ {o} \notin DOMAIN chans'[k].users
              /\ \A k \in DOMAIN chans \ ChannelsOf(o) : chans'[k] = chans[k]
              /\ Len(disp'.emits) = 1
              /\ disp'.emits[1].name = "nick"
              /\ disp'.emits[1].text.channels = ChannelsOf(o)]_vars

\* The +mode and -mode events of the dispatched message, in order.
ModeEvents ==
    SelectSeq(disp.emits, LAMBDA e : e.name \in {"+mode", "-mode"})

\* What the MODE asks for, letter by letter from the i-th on: the sign in
\* force and the parameters not yet consumed decide each event.
RECURSIVE AskedModeEvents(_, _, _, _)
AskedModeEvents(modeList, i, sign, params) ==
    LET mode == modeList[i]
        takes == mode \in {"o", "b", "k"} \/ (mode = "l" /\ sign = "+")
        arg == IF takes /\ params # <<>> THEN {Head(params)} ELSE {}
        rest == IF takes /\ params # <<>> THEN Tail(params) ELSE params
    IN  IF i > Len(modeList) THEN <<>>
        ELSE IF mode \in {"+", "-"} THEN AskedModeEvents(modeList, i + 1, mode, params)
        ELSE IF mode \notin {"o", "b", "k", "l", "m"}
             THEN AskedModeEvents(modeList, i + 1, sign, params)
        ELSE <<[name |-> sign \o "mode", mode |-> mode, arg |-> arg]>>
             \o AskedModeEvents(modeList, i + 1, sign, rest)

\* C30: a MODE on a known channel emits one +mode or -mode event per
\* processed letter, in the order of the letters, with the sign of the most
\* recent + or - (+ at first) and the parameter of its own letter, the
\* parameters being consumed left to right by the prefix mode, the modes of
\* types a and b, and the modes of type c when added.
C30_ModeEventsPerLetter ==
    disp.msg.command = "MODE" =>
        [i \in 1..Len(ModeEvents) |->
            [name |-> ModeEvents[i].name, mode |-> ModeEvents[i].text.mode,
             arg |-> ModeEvents[i].text.arg]]
        = AskedModeEvents(disp.msg.args[2], 1, "+", SubSeq(disp.msg.args, 3, Len(disp.msg.args)))

\* The list a MODE of signs and the list mode b asks for, letter by letter
\* from the i-th on; list is the empty set while no list is recorded and
\* {l} for the recorded list l.
RECURSIVE AskedList(_, _, _, _, _)
AskedList(modeList, i, sign, params, list) ==
    LET left == SelectSeq(Val(list), LAMBDA v : v # {Head(params)})
    IN  IF i > Len(modeList) THEN list
        ELSE IF modeList[i] \in {"+", "-"}
             THEN AskedList(modeList, i + 1, modeList[i], params, list)
        ELSE IF sign = "+"
             THEN AskedList(modeList, i + 1, sign, Tail(params),
                            {(IF list = {} THEN <<>> ELSE Val(list)) \o <<{Head(params)}>>})
        ELSE AskedList(modeList, i + 1, sign, Tail(params),
                       IF list = {} \/ left = <<>> THEN {} ELSE {left})

\* The MODE dispatched holds only signs and the list mode b, each b with
\* its parameter.
ListModeOnly ==
    /\ disp.msg.command = "MODE"
    /\ \A i \in 1..Len(disp.msg.args[2]) : disp.msg.args[2][i] \in {"+", "-", "b"}
    /\ Cardinality({i \in 1..Len(disp.msg.args[2]) : disp.msg.args[2][i] = "b"})
           <= Len(disp.msg.args) - 2

\* C31: adding the list mode b with parameter p appends p to the channel's
\* list for b and has b once in the mode string; removing b with p takes p
\* from the list by value, b leaving the mode string and the parameter map
\* exactly when the list becomes empty; removing from a list that was
\* never recorded changes nothing and raises no error.
C31_ListModeState ==
    ListModeOnly =>
        LET ch == chans[<<"#", "f">>]
            list == AskedList(disp.msg.args[2], 1, "+",
                              SubSeq(disp.msg.args, 3, Len(disp.msg.args)), {})
        IN  /\ ~disp.threw
            /\ list = {} => /\ "b" \notin DOMAIN ch.modeParams
                            /\ \A i \in 1..Len(ch.mode) : ch.mode[i] # "b"
            /\ list # {} => /\ "b" \in DOMAIN ch.modeParams
                            /\ ch.modeParams["b"] = Val(list)
                            /\ Cardinality({i \in 1..Len(ch.mode) : ch.mode[i] = "b"}) = 1

---------------------------------------------------------------------------
(* Claims about the lifetime of the channel map's entries, under SpecChan. *)

\* The names with a ChannelState after msg is dispatched, given those
\* before it: a JOIN of the local user adds the channel, a PART of the
\* local user or a KICK of the local user removes it, nothing else counts.
JoinedAfter(names, msg) ==
    LET name == ToLowerCase(msg.args[1])
    IN  IF msg.command = "JOIN" /\ msg.nick = self.nick THEN names \cup {name}
        ELSE IF msg.command = "PART" /\ msg.nick = self.nick THEN names \ {name}
        ELSE IF msg.command = "KICK" /\ {msg.args[2]} = self.nick THEN names \ {name}
        ELSE names

\* C32: within one connection the channels with a ChannelState are those
\* the local user has joined and not since parted or been kicked from: a
\* JOIN, PART or KICK of another user neither creates nor destroys one,
\* and a PART or KICK of the local user for a channel without one leaves
\* the channel map as it was.  (Under SpecChan every step taken on the
\* open connection dispatches disp'.msg.)
C32_ChannelStateLifecycle ==
    [][conns[conn].readyState = "open" =>
          /\ DOMAIN chans' = JoinedAfter(DOMAIN chans, disp'.msg)
          /\ DOMAIN chans' = DOMAIN chans =>
                 \A k \in DOMAIN chans : /\ chans'[k].key = chans[k].key
                                          /\ chans'[k].serverName = chans[k].serverName]_vars

C32_Witness ==
    /\ disp.msg.command = "PART"
    /\ disp.msg.nick = self.nick
    /\ disp.msg.args[1] = <<"#", "F">>
    /\ ~disp.threw
    /\ DOMAIN chans = {<<"#", "g">>}

---------------------------------------------------------------------------
(* Claims about exceptions in handleData, under SpecChunk.                 *)

\* The lines of the chunk that raise an exception: in parseMessage, or in
\* the raw listener.
RaisesInParse(line) == line[1] = "SP"

RaisesInDispatch(line) == line = <<"0", "0", "1">>

\* C33: an exception raised while a line of the chunk is parsed or
\* dispatched leaves handleData when the connection is not marked
\* requestedDisconnect; when it is marked, no exception leaves handleData
\* and the remaining lines of the chunk are still dispatched.
C33_ExceptionsFollowTheFlag ==
    last.called =>
        LET lines == last.input.lines
            raising == {i \in 1..Len(lines) :
                           RaisesInParse(lines[i]) \/ RaisesInDispatch(lines[i])}
        IN  IF last.input.requestedDisconnect
            THEN /\ ~last.threw
                 /\ last.emitted = SelectSeq(lines, LAMBDA l : ~RaisesInParse(l))
            ELSE last.threw = (raising # {})

---------------------------------------------------------------------------
(* Claims about ping timeouts and retry counts, under SpecFair and Spec.   *)

\* Connection c has been torn down and its close is still to be delivered,
\* with no current connection.
TornDown(c) ==
    /\ c \in ConnIds
    /\ conn = NoConn
    /\ conns[c].closeEvent = "pending"

\* C34: a pingTimeout of the current connection's timer stops the timer,
\* destroys the socket and clears the current connection; until the close
\* is delivered there is no current connection, so the close listener
\* treats the close as not requested: it is delivered, and then a reconnect
\* is scheduled, or abort is emitted when the retry cap has been reached.
C34_PingTimeoutTearsDown ==
    /\ [][\A c \in ConnIds :
             (c = conn /\ PingWaitTimeoutFires(c)) =>
                 /\ conn' = NoConn
                 /\ conns'[c].timer = NewTimer
                 /\ conns'[c].readyState = "closed"
                 /\ conns'[c].closeEvent # "none"]_vars
    /\ [][\A c \in ConnIds :
             TornDown(c) =>
                 /\ conn' = NoConn
                 /\ conns'[c].closeEvent = "delivered" =>
                        IF \E n \in opt.retryCount : conns[c].retryCount >= n
                        THEN /\ events' = Append(events, [name |-> "abort",
                                                          arg |-> Val(opt.retryCount)])
                             /\ retryTimers' = retryTimers
                        ELSE /\ retryTimers' = Append(retryTimers, conns[c].retryCount + 1)
                             /\ events' = events]_vars
    /\ \A c \in 1..MaxConn :
           TornDown(c) ~> (c \in ConnIds /\ conns[c].closeEvent = "delivered")

\* C34 witness: the first connection's timer had sent its ping and timed
\* out, the close was delivered and the reconnect is scheduled.
C34_Witness ==
    /\ conn = NoConn
    /\ pings > 0
    /\ conns[1].timer = NewTimer
    /\ conns[1].closeEvent = "delivered"
    /\ ~conns[1].requestedDisconnect
    /\ retryTimers = <<1>>


---------------------------------------------------------------------------
(* C35: once disconnect() has marked a connection requestedDisconnect, no   *)
(* step writes a line to that connection's socket (the PONG to a server     *)
(* PING, the watchdog's PING, the caller's commands and the lines the flood *)
(* interval dequeues are all dropped by send()), and the only line a step   *)
(* can have written to a connection that is marked at its end is the QUIT   *)
(* of the disconnect() that marked it.  written holds the lines of the      *)
(* latest step.                                                             *)

MarkedBefore(i) == conns[written'[i].conn].requestedDisconnect

C35_QuitIsTheLastLine ==
    /\ [][\A i \in 1..Len(written') : ~MarkedBefore(i)]_vars
    /\ [](\A i \in 1..Len(written) :
             conns[written[i].conn].requestedDisconnect => written[i].cmd = "QUIT")

\* The handshake lines were queued on a connection disconnect() had marked
\* while it was opening, and the interval has dequeued them all without a
\* line being written.
C35_Witness ==
    /\ conn # NoConn
    /\ opt.floodProtection
    /\ conns[conn].requestedDisconnect
    /\ conns[conn].readyState = "open"
    /\ cmdQueue = <<>>
    /\ written = <<>>


---------------------------------------------------------------------------
(* C36: the attempt count passes from each connection to its successor and  *)
(* nothing resets it: the c-th connection of the client carries count       *)
(* c - 1, whether or not its predecessors connected and registered; and,    *)
(* while the caller has requested no disconnect, the delivery of a close    *)
(* emits abort exactly when retryCount is a number N and the close is the   *)
(* (N + 1)-th of the client's lifetime.                                     *)

ClosesDelivered == Cardinality({d \in ConnIds : conns[d].closeEvent = "delivered"})

CloseDeliveredNow(c) ==
    /\ c \in ConnIds
    /\ conns[c].closeEvent = "pending"
    /\ conns'[c].closeEvent = "delivered"

C36_RetryCountCarried ==
    /\ [](\A c \in ConnIds : conns[c].retryCount = c - 1)
    /\ [][\A c \in 1..MaxConn :
             (NoneRequested /\ CloseDeliveredNow(c)) =>
                 ((Aborts' # Aborts) <=>
                      \E N \in opt.retryCount : ClosesDelivered + 1 = N + 1)]_vars

\* retryCount 2: the first two connections connected, two welcomes were
\* handled (the first connection is welcomed at most once, so the second
\* registered), each of the three connections closed without a
\* disconnect(), and the third close emitted abort.
C36_Witness ==
    /\ opt.retryCount = {2}
    /\ NoneRequested
    /\ Len(conns) = 3
    /\ AllClosesDelivered
    /\ \A c \in 1..2 : \E i \in 1..Len(events) : events[i] = [name |-> "connect", arg |-> c]
    /\ Len(self.whois) = 2
    /\ Len(Aborts) = 1
    /\ events[Len(events)].name = "abort"

====
